---- MODULE Spec2Model ----
(***************************************************************************)
(* NavixAI backend (backend/api/views.py): the activity-suggestion         *)
(* pipeline.  The module models                                            *)
(*   - the keyword proposer (get_multiple_activities_from_ai and its       *)
(*     rule-based fallback get_fallback_multiple_activities),              *)
(*   - the place search (get_nearby_places),                               *)
(*   - the request handler get_activity_suggestion with the Django cache,  *)
(*     the weather fetch and the per-keyword fan-out.                      *)
(*   - the fan-out get_places_for_all_activities on its own, with its      *)
(*     worker pool and the as_completed loop.                              *)
(* Time is in seconds.  Strings of the source are kept as strings; the     *)
(* string operations the code applies to them (strip, lower, substring     *)
(* tests) are tables over the closed vocabulary the model draws from.      *)
(***************************************************************************)
EXTENDS Integers, Sequences, FiniteSets, TLC

VARIABLES
  propIn, propOut,     \* the proposer on its own: arguments, return value
  placeIn, placeOut,   \* the place search on its own: arguments, return value
  scope,               \* which requests the clients send ("cache", "aggregate")
  config,              \* the module-level API keys: which of them are set
  now,                 \* the clock, in seconds
  cache,               \* the Django cache: key -> [value, expires, stored]
  pc,                  \* the handler's position in get_activity_suggestion
  req,                 \* the request being handled
  locals,              \* the handler's local variables
  resp,                \* the response of the request being handled
  trace,               \* what the handling of this request has done so far
  prev,                \* per request payload: the last response to it
  left,                \* requests still to come
  ticks,               \* clock advances still to come
  fan,                 \* get_places_for_all_activities on its own: its pool
  travel,              \* get_travel_times on its own: arguments, return value
  details,             \* the endpoint get_place_details with its cache entries
  userPrefs,           \* a UserPreferences row and the last call on it
  wx,                  \* the weather cache entry and the two endpoints using it
  hist                 \* the like/dislike histories kept in the cache

propVars == <<propIn, propOut>>

placeVars == <<placeIn, placeOut>>

pipeVars == <<scope, config, now, cache, pc, req, locals, resp, trace, prev, left, ticks>>

vars == <<propIn, propOut, placeIn, placeOut, scope, config, now, cache, pc, req,
          locals, resp, trace, prev, left, ticks, fan, travel, details, userPrefs,
          wx, hist>>

\* the state of the entry points modelled on their own, further down
sideVars == <<travel, details, userPrefs, wx, hist>>

(***************************************************************************)
(* Bounds of the model.                                                    *)
(***************************************************************************)
\* largest max_activities handed to the proposer on its own
MaxCount == 17
\* longest keyword list handed to get_places_for_all_activities on its own,
\* and longest one whose searches have outcomes of every kind
MaxKeywords == 6
MaxMixed == 3
\* longest AI answer, in comma-separated segments
MaxTokens == 3
\* most results of the keyword search (strategy 1) and of the type search
\* (strategy 2) in the place-search specification
MaxResultsA == 3
MaxResultsB == 2
\* requests per behaviour and clock advances per behaviour of the pipeline
MaxRequests == 2
MaxTicks == 3

\* the value of a variable the specification at hand does not use
Unused == "unused"

(***************************************************************************)
(* Sequence helpers: Python list operations.                               *)
(***************************************************************************)
Min(a, b) == IF a <= b THEN a ELSE b

Max(a, b) == IF a >= b THEN a ELSE b

\* element in list
InSeq(x, s) == \E i \in 1..Len(s) : s[i] = x

\* lst[:m]: the first m elements, or all but the last -m when m is negative
SliceTo(s, m) ==
  LET n == IF m >= 0 THEN Min(m, Len(s)) ELSE Max(Len(s) + m, 0)
  IN  SubSeq(s, 1, n)

\* the seen-set loop: first occurrences, in order
RECURSIVE Unique(_)
Unique(s) ==
  IF s = <<>> THEN <<>>
  ELSE LET r == Unique(SubSeq(s, 1, Len(s) - 1))
       IN  IF InSeq(s[Len(s)], r) THEN r ELSE Append(r, s[Len(s)])

NoDuplicates(s) == \A i, j \in 1..Len(s) : s[i] = s[j] => i = j

\* all sequences over S of length at most n
SeqsUpTo(S, n) == UNION {[1..k -> S] : k \in 0..n}

(***************************************************************************)
(* The keyword catalog of the fallback proposer.                           *)
(***************************************************************************)
outdoor_activities == <<"park", "hiking trail", "outdoor sports", "garden", "beach">>

indoor_relaxation == <<"cafe", "spa", "library", "bookstore", "tea house">>

cultural_activities == <<"museum", "gallery", "theater", "historical site", "cultural center">>

culinary_activities == <<"restaurant", "food market", "bakery", "wine bar", "cooking school">>

\* the list returned when the fallback itself raises
default_activities ==
  <<"restaurant", "cafe", "museum", "gallery", "park", "theater", "shopping", "spa">>

\* the preference flags, in the order the code tests them
PreferenceFlags ==
  <<"outdoorAdventure", "indoorRelaxation", "culturalExploration", "culinaryDelights">>

\* activity_preferences.get(flag): the dict is a sequence of [name, on] items in
\* payload order, each name at most once
PrefEnabled(prefs, flag) ==
  \E i \in 1..Len(prefs) : prefs[i].name = flag /\ prefs[i].on

\* weather_data['weather'][0]['main'].lower()
Lower(s) ==
  CASE s = "Rain" -> "rain"
    [] s = "Thunderstorm" -> "thunderstorm"
    [] s = "Clear" -> "clear"
    [] s = "Snow" -> "snow"
    [] OTHER -> s

\* 'rain' in weather_main or 'storm' in weather_main
BadWeather(weather_main) == weather_main \in {"rain", "thunderstorm"}

\* act in indoor_relaxation + cultural_activities + culinary_activities
IsIndoor(act) ==
  InSeq(act, indoor_relaxation \o cultural_activities \o culinary_activities)

\* act in outdoor_activities and 'park' in act
IsShadedOutdoor(act) == InSeq(act, outdoor_activities) /\ act \in {"park"}

\* the extends guarded by the preference flags
PreferredActivities(prefs) ==
     (IF PrefEnabled(prefs, "outdoorAdventure") THEN outdoor_activities ELSE <<>>)
  \o (IF PrefEnabled(prefs, "indoorRelaxation") THEN indoor_relaxation ELSE <<>>)
  \o (IF PrefEnabled(prefs, "culturalExploration") THEN cultural_activities ELSE <<>>)
  \o (IF PrefEnabled(prefs, "culinaryDelights") THEN culinary_activities ELSE <<>>)

\* two of each category, then every catalog keyword not yet included
BalancedActivities ==
  LET seed == SubSeq(outdoor_activities, 1, 2) \o SubSeq(indoor_relaxation, 1, 2)
              \o SubSeq(cultural_activities, 1, 2) \o SubSeq(culinary_activities, 1, 2)
      all_activities == outdoor_activities \o indoor_relaxation
                        \o cultural_activities \o culinary_activities
  IN  seed \o SelectSeq(all_activities, LAMBDA act : ~InSeq(act, seed))

\* a bug the fallback could have: the preferences ignored
AvailableIgnoringPrefs(prefs) == BalancedActivities

AvailableActivities(prefs) ==
  IF PreferredActivities(prefs) = <<>> THEN BalancedActivities
  ELSE PreferredActivities(prefs)

\* a bug the rain check could have: the bad-weather branch keeps every keyword
WeatherFilteredKeepAll(available, weather, max_activities) == available

\* the weather-based filtering
WeatherFiltered(available, weather, max_activities) ==
  LET indoor == SelectSeq(available, IsIndoor)
  IN  IF BadWeather(Lower(weather.main))
        THEN IF Len(indoor) < max_activities
               THEN indoor \o SelectSeq(available, LAMBDA act : ~InSeq(act, indoor))
               ELSE indoor
      ELSE IF weather.temp > 30
        THEN indoor \o SelectSeq(available, IsShadedOutdoor)
      ELSE IF weather.temp > 20 THEN available
      ELSE IF weather.temp < 5 THEN indoor
      ELSE available

\* a malformed snapshot raises KeyError on the first line, and the handler
\* returns the default list
get_fallback_multiple_activities(weather, max_activities, prefs) ==
  IF ~weather.ok THEN SliceTo(default_activities, max_activities)
  ELSE SliceTo(Unique(WeatherFiltered(AvailableActivities(prefs), weather,
                                      max_activities)),
               max_activities)

(***************************************************************************)
(* The AI-backed proposer.  The answer text is the sequence of its         *)
(* segments between the separators , ; and newline.                        *)
(***************************************************************************)
\* segments an answer is made of
RawTokens == {"Park", " museum ", "go", "dancing", "shopping"}

\* activity.strip().lower()
StripLower(raw) ==
  CASE raw = "Park" -> "park"
    [] raw = " museum " -> "museum"
    [] OTHER -> raw

\* not (activity and len(activity) > 2)
TooShort(activity) == activity \in {"", "go"}

parse_activities_from_response(activity_text) ==
  SelectSeq([i \in 1..Len(activity_text) |-> StripLower(activity_text[i])],
            LAMBDA activity : ~TooShort(activity))

\* any(keyword in activity for keyword in valid_keywords), over the vocabulary
ContainsValidKeyword(activity) == activity \in {"park", "museum"}

\* the list of common single-word activities
CommonActivities ==
  {"restaurant", "cafe", "museum", "park", "cinema", "shopping", "bar", "gym", "spa"}

filter_valid_activities(activities) ==
  SelectSeq(activities,
            LAMBDA activity : ContainsValidKeyword(activity)
                              \/ activity \in CommonActivities)

\* ai.kind: "nokey" (openai.api_key unset), "raise" (the completion call
\* raises), "text" (an answer, ai.text).  Building the prompt from a malformed
\* snapshot raises before the call.
get_multiple_activities_from_ai(weather, max_activities, prefs, ai) ==
  IF ai.kind = "nokey" \/ ~weather.ok \/ ai.kind = "raise"
    THEN get_fallback_multiple_activities(weather, max_activities, prefs)
  ELSE LET valid_activities ==
             filter_valid_activities(parse_activities_from_response(ai.text))
       IN  IF Len(valid_activities) < 2
             THEN get_fallback_multiple_activities(weather, max_activities, prefs)
           ELSE SliceTo(valid_activities, max_activities)

(***************************************************************************)
(* Inputs of the proposer.                                                 *)
(***************************************************************************)
MalformedWeather == [ok |-> FALSE, main |-> "", temp |-> 0]

Weathers ==
  {[ok |-> TRUE, main |-> m, temp |-> t] : m \in {"Rain", "Thunderstorm", "Clear"},
                                            t \in {0, 15, 25, 35}}
  \cup {MalformedWeather}

\* every on/off combination of the four flags, and the empty dict
AllPrefs ==
  {[i \in 1..4 |-> [name |-> PreferenceFlags[i], on |-> b[i]]] :
     b \in [1..4 -> BOOLEAN]} \cup {<<>>}

NoAnswer == {[kind |-> k, text |-> <<>>] : k \in {"nokey", "raise"}}

Answers == {[kind |-> "text", text |-> t] : t \in SeqsUpTo(RawTokens, MaxTokens)}

Counts == (-1)..MaxCount

\* the fallback is exercised over all weathers and preferences; the answer
\* parsing over all answers, with two weathers and two preference dicts
ProposerInputs ==
  {[weather |-> w, max |-> n, prefs |-> p, ai |-> a] :
     w \in Weathers, n \in Counts, p \in AllPrefs, a \in NoAnswer}
  \cup
  {[weather |-> w, max |-> n, prefs |-> p, ai |-> a] :
     w \in {[ok |-> TRUE, main |-> "Clear", temp |-> 0], MalformedWeather},
     n \in Counts,
     p \in {<<>>, <<[name |-> "outdoorAdventure", on |-> TRUE]>>},
     a \in Answers}

NotProposed == [done |-> FALSE, keywords |-> <<>>, fallback |-> <<>>]

InitPropose ==
  /\ propIn \in ProposerInputs
  /\ propOut = NotProposed
  /\ placeIn = Unused /\ placeOut = Unused
  /\ scope = Unused /\ config = Unused /\ now = Unused /\ cache = Unused
  /\ pc = Unused /\ req = Unused /\ locals = Unused /\ resp = Unused
  /\ trace = Unused /\ prev = Unused /\ left = Unused /\ ticks = Unused
  /\ fan = Unused
  /\ travel = Unused /\ details = Unused /\ userPrefs = Unused
  /\ wx = Unused /\ hist = Unused

\* one call of the proposer, and of the fallback on the same arguments
ProposeKeywords ==
  /\ ~propOut.done
  /\ propOut' =
       [done |-> TRUE,
        keywords |-> get_multiple_activities_from_ai(propIn.weather, propIn.max,
                                                      propIn.prefs, propIn.ai),
        fallback |-> get_fallback_multiple_activities(propIn.weather, propIn.max,
                                                       propIn.prefs)]
  /\ UNCHANGED propIn

NextPropose ==
  ProposeKeywords /\ UNCHANGED placeVars /\ UNCHANGED pipeVars /\ UNCHANGED fan
  /\ UNCHANGED sideVars

(***************************************************************************)
(* The place search, get_nearby_places.  A place is [place_id, name]; a    *)
(* provider result without a place_id has place_id "".  A provider answer  *)
(* is [kind, results]: kind "raise" when the nearby-search call raises.    *)
(***************************************************************************)
Place(id, name) == [place_id |-> id, name |-> name]

\* the keys of the mock_places dict of get_mock_places
MockKeywords == {"restaurant", "cafe", "museum", "park", "cinema"}

\* the mock_places dict of get_mock_places
MockEntry(keyword) ==
  CASE keyword = "restaurant" ->
         <<Place("r1", "Gourmet Bistro"), Place("r2", "Cozy Corner Diner")>>
    [] keyword = "cafe" ->
         <<Place("c1", "Artisan Coffee House"), Place("c2", "Morning Brew")>>
    [] keyword = "museum" ->
         <<Place("m1", "City Art Museum"), Place("m2", "Natural History Museum")>>
    [] keyword = "park" ->
         <<Place("p1", "Riverside Park"), Place("p2", "Central Gardens")>>
    [] keyword = "cinema" ->
         <<Place("ci1", "Grand Theater"), Place("ci2", "Multiplex Cinema")>>

\* a bug get_mock_places could have: nothing for a keyword without entry
MockWithoutDefault(activity_type) ==
  IF activity_type \in MockKeywords THEN MockEntry(activity_type) ELSE <<>>

\* get_mock_places: mock_places.get(activity_type, mock_places.get('restaurant', []))
mock_places(activity_type) ==
  IF activity_type \in MockKeywords THEN MockEntry(activity_type)
  ELSE MockEntry("restaurant")

\* the keys of type_mapping
TypeMapped ==
  {"restaurant", "cafe", "museum", "park", "shopping", "cinema", "bar", "gym"}

HasPlaceId(places, id) == \E i \in 1..Len(places) : places[i].place_id = id

\* a bug the duplicate removal could have: the entry of a place_id is
\* overwritten by each later occurrence (the dict keeps the first position)
RECURSIVE UniquePlacesLastWins(_)
UniquePlacesLastWins(places) ==
  IF places = <<>> THEN <<>>
  ELSE LET r == UniquePlacesLastWins(SubSeq(places, 1, Len(places) - 1))
           p == places[Len(places)]
       IN  IF p.place_id = "" THEN r
           ELSE IF HasPlaceId(r, p.place_id)
             THEN [i \in 1..Len(r) |-> IF r[i].place_id = p.place_id THEN p ELSE r[i]]
           ELSE Append(r, p)

\* the unique_places dict: the first result of each place_id, in order of
\* first occurrence; results without place_id are skipped
RECURSIVE UniquePlaces(_)
UniquePlaces(places) ==
  IF places = <<>> THEN <<>>
  ELSE LET r == UniquePlaces(SubSeq(places, 1, Len(places) - 1))
           p == places[Len(places)]
       IN  IF p.place_id # "" /\ ~HasPlaceId(r, p.place_id)
             THEN Append(r, p)
           ELSE r

\* a bug get_nearby_places could have: no handler around the whole body, the
\* exception reaches the caller
Propagate(activity_type, nearby) ==
  [places |-> <<>>, nearby |-> nearby, others |-> 0, raised |-> TRUE]

\* except Exception as e: return get_mock_places(activity_type)
OnException(activity_type, nearby) ==
  [places |-> mock_places(activity_type), nearby |-> nearby, others |-> 0,
   raised |-> FALSE]

\* key: GOOGLE_MAPS_API_KEY is set.  client: googlemaps.Client(key=...) is
\* constructed without raising.  fmt: the formatting of a place (its
\* geometry, travel times and photos) does not raise on the provider's
\* records.  a, b: the provider's
\* answers to the keyword search and to the type search (b is asked for only
\* when the type search runs).  Returns the places, the number of
\* nearby-search calls made, the number of other provider calls made (one
\* details call per result of the type search, two distance-matrix queries
\* per formatted place: the provider's records of the model have few photos
\* and have coordinates), and whether an exception reached the caller.
get_nearby_places(key, client, fmt, activity_type, a, b) ==
  IF ~key THEN [places |-> mock_places(activity_type), nearby |-> 0, others |-> 0,
                raised |-> FALSE]
  ELSE IF ~client THEN OnException(activity_type, 0)
  ELSE
    LET keyword_results == IF a.kind = "ok" THEN a.results ELSE <<>>
        type_search == Len(keyword_results) < 3 /\ activity_type \in TypeMapped
        type_results == IF type_search /\ b.kind = "ok" THEN b.results ELSE <<>>
        places_results == keyword_results \o type_results
        unique_places == UniquePlaces(places_results)
        nearby == IF type_search THEN 2 ELSE 1
        detail_calls == Cardinality({i \in 1..Len(type_results) :
                                       type_results[i].place_id # ""})
        places == SubSeq(unique_places, 1, Min(8, Len(unique_places)))
    IN  IF ~fmt /\ unique_places # <<>>
          THEN [OnException(activity_type, nearby) EXCEPT !.others = detail_calls]
        ELSE [places |-> places, nearby |-> nearby,
              others |-> detail_calls + 2 * Len(places), raised |-> FALSE]

(***************************************************************************)
(* Inputs of the place search.                                             *)
(***************************************************************************)
ProviderPlaces ==
  {Place("g1", "x"), Place("g1", "y"), Place("g2", "x"), Place("", "x")}

Raises == [kind |-> "raise", results |-> <<>>]

\* nine distinct places: more than the cap of eight
NinePlaces ==
  <<Place("g1", "x"), Place("g2", "x"), Place("g3", "x"), Place("g4", "x"),
    Place("g5", "x"), Place("g6", "x"), Place("g7", "x"), Place("g8", "x"),
    Place("g9", "x")>>

AnswersA ==
  {[kind |-> "ok", results |-> r] : r \in SeqsUpTo(ProviderPlaces, MaxResultsA)}
  \cup {[kind |-> "ok", results |-> NinePlaces], Raises}

AnswersB ==
  {[kind |-> "ok", results |-> r] : r \in SeqsUpTo(ProviderPlaces, MaxResultsB)}
  \cup {Raises}

PlaceInputs ==
  {[key |-> TRUE, client |-> TRUE, fmt |-> f, activity |-> t, a |-> a, b |-> b] :
     f \in BOOLEAN, t \in {"park", "spa"}, a \in AnswersA, b \in AnswersB}
  \cup
  {[key |-> k, client |-> c, fmt |-> TRUE, activity |-> t, a |-> Raises, b |-> Raises] :
     k \in BOOLEAN, c \in BOOLEAN, t \in {"park", "spa", "cinema"}}

NotSearched ==
  [done |-> FALSE, places |-> <<>>, nearby |-> 0, others |-> 0, raised |-> FALSE]

InitPlaces ==
  /\ placeIn \in PlaceInputs
  /\ placeOut = NotSearched
  /\ propIn = Unused /\ propOut = Unused
  /\ scope = Unused /\ config = Unused /\ now = Unused /\ cache = Unused
  /\ pc = Unused /\ req = Unused /\ locals = Unused /\ resp = Unused
  /\ trace = Unused /\ prev = Unused /\ left = Unused /\ ticks = Unused
  /\ fan = Unused
  /\ travel = Unused /\ details = Unused /\ userPrefs = Unused
  /\ wx = Unused /\ hist = Unused

\* one call of get_nearby_places
SearchPlaces ==
  /\ ~placeOut.done
  /\ LET r == get_nearby_places(placeIn.key, placeIn.client, placeIn.fmt,
                                placeIn.activity, placeIn.a, placeIn.b)
     IN  placeOut' = [done |-> TRUE, places |-> r.places, nearby |-> r.nearby,
                      others |-> r.others, raised |-> r.raised]
  /\ UNCHANGED placeIn

NextPlaces ==
  SearchPlaces /\ UNCHANGED propVars /\ UNCHANGED pipeVars /\ UNCHANGED fan
  /\ UNCHANGED sideVars

SpecPlaces == InitPlaces /\ [][NextPlaces]_vars

(***************************************************************************)
(* Claims about the place search, under SpecPlaces.                        *)
(***************************************************************************)
\* the index of the first result with this place_id
FirstIndex(places, id) ==
  CHOOSE i \in 1..Len(places) :
    places[i].place_id = id /\ \A j \in 1..(i - 1) : places[j].place_id # id

\* the provider path was taken: the credential is set, the client built and
\* the provider's records formatted
ProviderPath == placeOut.done /\ placeIn.key /\ placeIn.client /\ placeIn.fmt

AnsweredA == IF placeIn.a.kind = "ok" THEN placeIn.a.results ELSE <<>>

AnsweredB == IF placeIn.b.kind = "ok" THEN placeIn.b.results ELSE <<>>

\* C5: the sequence returned by get_nearby_places holds each place_id at most
\* once, also when the keyword search and the type search overlap, and the
\* record kept for a place_id is its first occurrence: the keyword search's
\* first result of that id, else the type search's first.
C5_PlaceIdsUnique ==
  placeOut.done =>
    /\ NoDuplicates([i \in 1..Len(placeOut.places) |-> placeOut.places[i].place_id])
    /\ ProviderPath =>
         \A i \in 1..Len(placeOut.places) :
           LET p == placeOut.places[i]
           IN  IF HasPlaceId(AnsweredA, p.place_id)
                 THEN p = AnsweredA[FirstIndex(AnsweredA, p.place_id)]
               ELSE /\ HasPlaceId(AnsweredB, p.place_id)
                    /\ p = AnsweredB[FirstIndex(AnsweredB, p.place_id)]

\* C5's case has happened: both searches ran and returned the same place_id
\* with different records, and the type search contributed a place of its own
C5_Witness ==
  /\ ProviderPath
  /\ placeOut.nearby = 2
  /\ \E i \in 1..Len(AnsweredA), j \in 1..Len(AnsweredB) :
       /\ AnsweredA[i].place_id = AnsweredB[j].place_id
       /\ AnsweredA[i].place_id # ""
       /\ AnsweredA[i] # AnsweredB[j]
  /\ \E i \in 1..Len(placeOut.places) :
       ~HasPlaceId(AnsweredA, placeOut.places[i].place_id)

\* an exception escaped the per-strategy handlers: the client could not be
\* built, or the formatting raised on a place the keyword search returned
EscapedException ==
  /\ placeOut.done
  /\ placeIn.key
  /\ \/ ~placeIn.client
     \/ ~placeIn.fmt /\ \E i \in 1..Len(AnsweredA) : AnsweredA[i].place_id # ""

\* C18: get_nearby_places never hands an exception to its caller, and when an
\* exception escapes the per-strategy handlers (client construction, the
\* formatting of the results with travel times and photos) it returns the mock
\* dataset of the keyword.
C18_NeverRaises ==
  placeOut.done =>
    /\ ~placeOut.raised
    /\ EscapedException => placeOut.places = mock_places(placeIn.activity)

\* C18's case has happened: both searches answered, the formatting raised, and
\* the mock dataset came back instead of the provider's places
C18_Witness ==
  /\ EscapedException
  /\ placeIn.client
  /\ placeOut.nearby = 2
  /\ ~placeOut.raised
  /\ placeOut.places = mock_places(placeIn.activity)
  /\ placeOut.places # <<>>

PlaceIds(places) == [i \in 1..Len(places) |-> places[i].place_id]

\* C22: when the places credential is absent a search makes no provider call
\* (no nearby-search, no details, no distance-matrix call) and returns the
\* fixed mock set of the keyword, or the mock set of 'restaurant' when the
\* keyword has no mock entry.
C22_NoCredentialReturnsMock ==
  (placeOut.done /\ ~placeIn.key) =>
    /\ placeOut.nearby = 0
    /\ placeOut.others = 0
    /\ ~placeOut.raised
    /\ Len(placeOut.places) = 2
    /\ placeIn.activity = "park" => PlaceIds(placeOut.places) = <<"p1", "p2">>
    /\ placeIn.activity = "cinema" => PlaceIds(placeOut.places) = <<"ci1", "ci2">>
    /\ placeIn.activity \notin MockKeywords =>
         PlaceIds(placeOut.places) = <<"r1", "r2">>

\* C22's case has happened: without credential, a keyword that has no mock
\* entry got the mock set of 'restaurant'
C22_Witness ==
  /\ placeOut.done
  /\ ~placeIn.key
  /\ placeIn.activity = "spa"
  /\ PlaceIds(placeOut.places) = <<"r1", "r2">>
  /\ placeOut.nearby + placeOut.others = 0

\* every nearby-search call of the search was made and raised
EveryNearbySearchFailed ==
  /\ placeOut.done
  /\ placeIn.key /\ placeIn.client
  /\ placeIn.a.kind = "raise"
  /\ placeIn.b.kind = "raise" \/ placeIn.activity \notin TypeMapped

\* C29: when, with the credential present, every nearby-search call of a
\* search fails (the keyword search raises, and the type search raises or
\* does not apply to the keyword), get_nearby_places returns the mock dataset
\* of the keyword, not an empty sequence.
C29_TotalFailureReturnsMock ==
  EveryNearbySearchFailed =>
    /\ placeOut.places # <<>>
    /\ placeOut.places = mock_places(placeIn.activity)

(***************************************************************************)
(* A further claim about the fallback proposer, under SpecPropose.         *)
(***************************************************************************)
\* the catalog list a preference flag stands for
CatalogOf(flag) ==
  CASE flag = "outdoorAdventure" -> outdoor_activities
    [] flag = "indoorRelaxation" -> indoor_relaxation
    [] flag = "culturalExploration" -> cultural_activities
    [] flag = "culinaryDelights" -> culinary_activities

EnabledPreferenceFlags(prefs) ==
  {PreferenceFlags[i] : i \in {j \in 1..Len(PreferenceFlags) :
                                  PrefEnabled(prefs, PreferenceFlags[j])}}

\* C33: when at least one preference flag is enabled and the weather snapshot
\* is well-formed, every keyword the fallback proposal returns belongs to the
\* catalog list of an enabled category, for every weather condition and
\* temperature.
C33_FallbackKeepsToEnabledCategories ==
  (propOut.done /\ propIn.weather.ok /\ EnabledPreferenceFlags(propIn.prefs) # {}) =>
    \A i \in 1..Len(propOut.fallback) :
      \E flag \in EnabledPreferenceFlags(propIn.prefs) :
        InSeq(propOut.fallback[i], CatalogOf(flag))

\* C33's case has happened: in the rain, with the outdoor and the culinary
\* flag enabled and the two others disabled, the fallback returned keywords
\* of both enabled categories
C33_Witness ==
  /\ propOut.done
  /\ propIn.weather.ok
  /\ BadWeather(Lower(propIn.weather.main))
  /\ EnabledPreferenceFlags(propIn.prefs) = {"outdoorAdventure", "culinaryDelights"}
  /\ \E i \in 1..Len(propOut.fallback) : InSeq(propOut.fallback[i], outdoor_activities)
  /\ \E i \in 1..Len(propOut.fallback) : InSeq(propOut.fallback[i], culinary_activities)

(***************************************************************************)
(* Claims about the proposer, under SpecPropose.                           *)
(***************************************************************************)
NoFlagEnabled(prefs) == \A i \in 1..4 : ~PrefEnabled(prefs, PreferenceFlags[i])

HasOutdoor(s) == \E i \in 1..Len(s) : InSeq(s[i], outdoor_activities)

HasIndoor(s) == \E i \in 1..Len(s) : IsIndoor(s[i])

\* C6: for every weather snapshot, every max_count >= 1 and every combination
\* of preference flags the proposal (fallback included) has at least one
\* keyword.
C6_ProposalNeverEmpty ==
  (propOut.done /\ propIn.max >= 1)
    => (Len(propOut.keywords) >= 1 /\ Len(propOut.fallback) >= 1)

\* C7: the keyword sequence returned by the proposer never holds the same
\* keyword twice, on the AI path as on the fallback path.  Stated for the
\* calls with max_count >= 1 among those the claim covers.
C7_KeywordsDistinct ==
  (propOut.done /\ propIn.max >= 1)
    => (NoDuplicates(propOut.keywords) /\ NoDuplicates(propOut.fallback))

\* C8: the keyword sequence returned by the proposer has length at most
\* max_count, on the AI path, the fallback path and the default-list path.
C8_AtMostMaxCount ==
  propOut.done => (Len(propOut.keywords) <= propIn.max
                   /\ Len(propOut.fallback) <= propIn.max)

\* the case of C9: Rain, 15 C, no preference flag enabled, max_count >= 1
RainCase ==
  /\ propOut.done
  /\ propIn.weather = [ok |-> TRUE, main |-> "Rain", temp |-> 15]
  /\ NoFlagEnabled(propIn.prefs)
  /\ propIn.max >= 1

\* C9 as stated: in the rain case the fallback proposal has no outdoor
\* keyword and at least one indoor, cultural or culinary keyword, for every
\* max_count >= 1.
C9_RainExcludesOutdoor ==
  RainCase => (~HasOutdoor(propOut.fallback) /\ HasIndoor(propOut.fallback))

\* C9 as amended: in the rain case the fallback proposal has at least one
\* indoor, cultural or culinary keyword for every max_count >= 1, and no
\* outdoor keyword for every max_count from 1 to 15 (the number of indoor,
\* cultural and culinary keywords of the catalog).
C9_RainExcludesOutdoorUpTo15 ==
  RainCase => /\ HasIndoor(propOut.fallback)
              /\ (propIn.max <= 15 => ~HasOutdoor(propOut.fallback))

\* C9's case has happened: the rain filter has removed the outdoor keywords
\* and all fifteen others are returned
C9_Witness ==
  /\ RainCase
  /\ propIn.max = 15
  /\ Len(propOut.fallback) = 15
  /\ ~HasOutdoor(propOut.fallback)

SpecPropose == InitPropose /\ [][NextPropose]_vars

(***************************************************************************)
(* The request handler get_activity_suggestion and the Django cache.       *)
(*                                                                         *)
(* A request payload is [latitude, longitude, max_activities, activities]. *)
(* A coordinate is [kind, v]: kind "missing" (no such field), "num" (v the  *)
(* number in units of 0.00001 degree) or "text" (a non-empty string that   *)
(* float() cannot convert).  max_activities is [kind, v]:                  *)
(* "absent", "int" (v), or "text" (a value int() cannot convert).          *)
(* activities is the preference dict.                                      *)
(***************************************************************************)
\* cache.set(cache_key, result, 3600)
RESULT_TTL == 3600
\* cache.set(cache_key, weather_data, 86400) in get_weather_data
WEATHER_TTL == 86400
\* data.get('max_activities', 5)
DEFAULT_MAX_ACTIVITIES == 5

Missing == [kind |-> "missing", v |-> 0]

Num(v) == [kind |-> "num", v |-> v]

\* a non-empty string that is not a number, such as "abc"
NotANumber == [kind |-> "text", v |-> 0]

\* float(x) raises ValueError
FloatRaises(x) == x.kind = "text"

\* not latitude: the field is absent, or the JSON number 0
Falsy(x) == x.kind = "missing" \/ (x.kind = "num" /\ x.v = 0)

\* round(float(x), 4) of a non-negative coordinate, in units of 0.0001 degree
Round4(x) ==
  LET q == x.v \div 10
      r == x.v % 10
  IN  IF r < 5 THEN q
      ELSE IF r > 5 THEN q + 1
      ELSE IF q % 2 = 0 THEN q ELSE q + 1

\* '_'.join([k for k, v in activity_preferences.items() if v])
\*   if activity_preferences else 'all'
PrefsKey(prefs) ==
  IF prefs = <<>> THEN <<"all">>
  ELSE LET on == SelectSeq(prefs, LAMBDA item : item.on)
       IN  [i \in 1..Len(on) |-> on[i].name]

\* f'multi_activity_{lat_rounded}_{lng_rounded}_{max_activities}_{prefs_key}'
ResultKey(latitude, longitude, max_activities, prefs) ==
  [ns |-> "multi_activity", lat |-> Round4(latitude), lng |-> Round4(longitude),
   max |-> max_activities, prefs |-> PrefsKey(prefs)]

\* f'weather_{latitude}_{longitude}'
WeatherKey(latitude, longitude) ==
  [ns |-> "weather", lat |-> latitude.v, lng |-> longitude.v, max |-> 0,
   prefs |-> <<>>]

\* cache.get(key): the value of an entry that has not expired
CacheHit(c, key, t) == key \in DOMAIN c /\ t < c[key].expires

\* cache.set(key, value, timeout) at time t; stored records the time of the
\* write
CacheSet(c, key, value, timeout, t) ==
  [k \in DOMAIN c \cup {key} |->
     IF k = key THEN [value |-> value, expires |-> t + timeout, stored |-> t]
     ELSE c[k]]

\* bugs the result-cache write could have: another TTL
StoreResultShort(c, key, result, t) == CacheSet(c, key, result, 1800, t)

StoreResultLong(c, key, result, t) == CacheSet(c, key, result, WEATHER_TTL, t)

\* cache.set(cache_key, result, 3600)
StoreResult(c, key, result, t) == CacheSet(c, key, result, RESULT_TTL, t)

(***************************************************************************)
(* The fan-out, get_places_for_all_activities.                             *)
(***************************************************************************)
\* fetch_places_for_activity: the bundle of the try branch, or the bundle of
\* the except branch when get_nearby_places raises
fetch_places_for_activity(activity, found, max_places_per_activity) ==
  IF found.raised
    THEN [activity_type |-> activity, places |-> <<>>, total_places_found |-> 0,
          error |-> TRUE]
  ELSE [activity_type |-> activity,
        places |-> SliceTo(found.places, max_places_per_activity),
        total_places_found |-> Len(found.places),
        error |-> FALSE]

\* a bug the collecting could have: every bundle kept
CollectAlways(activities_with_places, result) ==
  Append(activities_with_places, result)

\* if result['places']: activities_with_places.append(result)
Collect(activities_with_places, result) ==
  IF result.places # <<>> THEN Append(activities_with_places, result)
  ELSE activities_with_places

\* a bug the sort could have: ascending, then reversed, which turns the
\* bundles with equal totals around
RECURSIVE SortByTotalTiesReversed(_)
SortByTotalTiesReversed(s) ==
  IF s = <<>> THEN <<>>
  ELSE LET r == SortByTotalTiesReversed(SubSeq(s, 1, Len(s) - 1))
           x == s[Len(s)]
           k == Cardinality({i \in 1..Len(r) :
                               r[i].total_places_found > x.total_places_found})
       IN  SubSeq(r, 1, k) \o <<x>> \o SubSeq(r, k + 1, Len(r))

\* activities_with_places.sort(key=total_places_found, reverse=True): stable
RECURSIVE SortByTotal(_)
SortByTotal(s) ==
  IF s = <<>> THEN <<>>
  ELSE LET r == SortByTotal(SubSeq(s, 1, Len(s) - 1))
           x == s[Len(s)]
           k == Cardinality({i \in 1..Len(r) :
                               r[i].total_places_found >= x.total_places_found})
       IN  SubSeq(r, 1, k) \o <<x>> \o SubSeq(r, k + 1, Len(r))

(***************************************************************************)
(* What the clients send and what the providers answer.                    *)
(***************************************************************************)
OutdoorOnly == <<[name |-> "outdoorAdventure", on |-> TRUE]>>

\* {"outdoorAdventure": false}: a preference object with no flag enabled
AllOff == <<[name |-> "outdoorAdventure", on |-> FALSE]>>

Absent == [kind |-> "absent", v |-> 0]

AnInt(v) == [kind |-> "int", v |-> v]

NotAnInt == [kind |-> "text", v |-> 0]

Paris == [lat |-> Num(4885661), lng |-> Num(235222)]

Request(lat, lng, max, prefs) ==
  [latitude |-> lat, longitude |-> lng, max_activities |-> max, activities |-> prefs]

\* {"outdoorAdventure": true, "culinaryDelights": true} and the same object
\* with its members in the other order
OutdoorThenCulinary ==
  <<[name |-> "outdoorAdventure", on |-> TRUE],
    [name |-> "culinaryDelights", on |-> TRUE]>>

CulinaryThenOutdoor ==
  <<[name |-> "culinaryDelights", on |-> TRUE],
    [name |-> "outdoorAdventure", on |-> TRUE]>>

\* "cache": repeated requests, with and without usable coordinates, without
\* an enabled preference, small fan-outs.
\* "aggregate": one request with coordinates, max_activities of every sign
\* and the default.
\* "keys": repeated requests with two enabled preferences in either order,
\* with a coordinate on the equator or on the prime meridian (the JSON
\* number 0), or without preferences, from Paris or from a few metres
\* further north (48.85664, which rounds to the same 4 decimals).
Requests(sc) ==
  IF sc = "keys"
    THEN {Request(Paris.lat, Paris.lng, AnInt(2), prefs) :
            prefs \in {<<>>, OutdoorThenCulinary, CulinaryThenOutdoor}}
         \cup {Request(Num(0), Paris.lng, AnInt(2), <<>>),
               Request(Paris.lat, Num(0), AnInt(2), <<>>),
               Request(Num(4885664), Paris.lng, AnInt(2), <<>>)}
  ELSE IF sc = "cache"
    THEN {Request(Paris.lat, Paris.lng, AnInt(2), prefs) : prefs \in {<<>>, AllOff}}
         \cup {Request(Missing, Paris.lng, NotAnInt, <<>>),
               Request(Paris.lat, Missing, AnInt(2), <<>>),
               Request(NotANumber, Paris.lng, AnInt(2), <<>>),
               Request(Paris.lat, NotANumber, AnInt(2), <<>>)}
  ELSE {Request(Paris.lat, Paris.lng, max, OutdoorOnly) :
          max \in {Absent, AnInt(-1), AnInt(0), AnInt(2)}}

Configs(sc) ==
  IF sc = "aggregate" THEN [googleKey : BOOLEAN, openaiKey : BOOLEAN]
  ELSE {[googleKey |-> TRUE, openaiKey |-> TRUE]}

\* the weather provider: no answer (a status other than 200, or the request
\* raises), or a snapshot
NoWeather == [ok |-> FALSE, main |-> "none", temp |-> 0]

\* a bug get_weather_data could have: every answer taken for a snapshot
StatusAlwaysOk(answer) == TRUE

\* response.status_code == 200, and neither requests.get nor response.json()
\* raised
StatusOk(answer) == answer.ok

WeatherAnswers(sc) ==
  {NoWeather, [ok |-> TRUE, main |-> "Clear", temp |-> 15]}
  \cup (IF sc = "aggregate" THEN {[ok |-> TRUE, main |-> "Clear", temp |-> 0]}
        ELSE {})

\* the completion: raises, or answers
AiAnswers(sc, cfg) ==
  IF ~cfg.openaiKey THEN {[kind |-> "nokey", text |-> <<>>]}
  ELSE {[kind |-> "raise", text |-> <<>>],
        [kind |-> "text", text |-> <<"Park", " museum ", "shopping">>]}
       \cup (IF sc = "aggregate"
               THEN {[kind |-> "text", text |-> <<"Park", "Park">>]}
             ELSE {})

\* the places provider, per keyword: two places, nothing, many, or both
\* searches raise
SearchAnswers(sc, cfg) ==
  IF ~cfg.googleKey THEN {[a |-> Raises, b |-> Raises]}
  ELSE {[a |-> [kind |-> "ok", results |-> <<Place("g1", "x"), Place("g2", "x")>>],
         b |-> Raises],
        [a |-> [kind |-> "ok", results |-> <<>>], b |-> [kind |-> "ok", results |-> <<>>]]}
       \cup (IF sc = "aggregate"
               THEN {[a |-> [kind |-> "ok", results |-> NinePlaces], b |-> Raises],
                     [a |-> Raises, b |-> Raises]}
             ELSE {})

(***************************************************************************)
(* The handler's state.                                                    *)
(***************************************************************************)
NoRequest == Request(Missing, Missing, Absent, <<>>)

NoResult == [activities |-> <<>>, weather |-> NoWeather,
             location |-> [latitude |-> Missing, longitude |-> Missing]]

\* JsonResponse: status, the error text ("" for a result), the result
Response(status, error, result) ==
  [status |-> status, error |-> error, result |-> result]

NoResponse == Response(0, "", NoResult)

NoLocals == [max_activities |-> 0, cache_key |-> ResultKey(Missing, Missing, 0, <<>>),
             weather_data |-> NoWeather, activities |-> <<>>,
             pending |-> {}, activities_with_places |-> <<>>]

\* what handling the request has done: when the cache was looked up, whether
\* it hit, the age of the entry found under the key (-1: none), the outbound
\* weather requests, the proposer calls, the place searches, the nearby-search
\* calls to the places provider, the cache writes, the time of the
\* result-cache write (-1: none), whether the weather provider was asked and
\* gave no answer, the keywords (by position in the proposal) every
\* nearby-search call of which raised
NoTrace == [arrived |-> 0, hit |-> FALSE, entryAge |-> -1, weatherLookups |-> 0,
            weather |-> 0, proposer |-> 0, searches |-> 0, places |-> 0,
            cacheSets |-> 0, storedAt |-> -1, weatherFailed |-> FALSE,
            failed |-> {}]

NoPrev == [seen |-> FALSE, resp |-> NoResponse, storedAt |-> -1]

InitPipeline(sc) ==
  /\ scope = sc
  /\ config \in Configs(sc)
  /\ now = 0
  /\ cache = [k \in {} |-> NoPrev]
  /\ pc = "idle"
  /\ req = NoRequest
  /\ locals = NoLocals
  /\ resp = NoResponse
  /\ trace = NoTrace
  /\ prev = [r \in Requests(sc) |-> NoPrev]
  /\ left = IF sc = "aggregate" THEN 1 ELSE MaxRequests
  /\ ticks = MaxTicks
  /\ propIn = Unused /\ propOut = Unused
  /\ placeIn = Unused /\ placeOut = Unused
  /\ fan = Unused
  /\ travel = Unused /\ details = Unused /\ userPrefs = Unused
  /\ wx = Unused /\ hist = Unused

InitCache == InitPipeline("cache")

InitAggregate == InitPipeline("aggregate")

InitKeys == InitPipeline("keys")


(***************************************************************************)
(* The handler, step by step.  One request is handled at a time.           *)
(***************************************************************************)
\* int(data.get('max_activities', 5)), for a value int() converts
ParseMax(raw) == IF raw.kind = "absent" THEN DEFAULT_MAX_ACTIVITIES ELSE raw.v

\* lines 170-197: parse, validate, build the cache key, look the result up
HandleRequest(r) ==
  /\ pc = "idle"
  /\ left > 0
  /\ left' = left - 1
  /\ req' = r
  /\ IF r.max_activities.kind = "text"
       THEN \* int() raises ValueError, caught by the handler's except
            /\ resp' = Response(500, "Failed to get activity suggestions", NoResult)
            /\ pc' = "done"
            /\ locals' = NoLocals
            /\ trace' = [NoTrace EXCEPT !.arrived = now]
     ELSE IF Falsy(r.latitude) \/ Falsy(r.longitude)
       THEN /\ resp' = Response(400, "Missing coordinates", NoResult)
            /\ pc' = "done"
            /\ locals' = NoLocals
            /\ trace' = [NoTrace EXCEPT !.arrived = now]
     ELSE IF FloatRaises(r.latitude) \/ FloatRaises(r.longitude)
       THEN \* float() raises ValueError, caught by the handler's except
            /\ resp' = Response(500, "Failed to get activity suggestions", NoResult)
            /\ pc' = "done"
            /\ locals' = NoLocals
            /\ trace' = [NoTrace EXCEPT !.arrived = now]
     ELSE LET max_activities == ParseMax(r.max_activities)
              cache_key == ResultKey(r.latitude, r.longitude, max_activities,
                                     r.activities)
              age == IF cache_key \in DOMAIN cache
                       THEN now - cache[cache_key].stored ELSE -1
          IN  IF CacheHit(cache, cache_key, now)
                THEN /\ resp' = Response(200, "", cache[cache_key].value)
                     /\ pc' = "done"
                     /\ locals' = NoLocals
                     /\ trace' = [NoTrace EXCEPT !.arrived = now, !.hit = TRUE,
                                                 !.entryAge = age]
              ELSE /\ resp' = NoResponse
                   /\ pc' = "weather"
                   /\ locals' = [NoLocals EXCEPT !.max_activities = max_activities,
                                                 !.cache_key = cache_key]
                   /\ trace' = [NoTrace EXCEPT !.arrived = now, !.entryAge = age]
  /\ UNCHANGED <<scope, config, now, cache, prev, ticks>>

\* get_weather_data and lines 199-202: the weather cache, else one outbound
\* request whose answer is `answer`
FetchWeather(answer) ==
  /\ pc = "weather"
  /\ LET key == WeatherKey(req.latitude, req.longitude)
     IN  IF CacheHit(cache, key, now)
           THEN /\ locals' = [locals EXCEPT !.weather_data = cache[key].value]
                /\ trace' = [trace EXCEPT !.weatherLookups = @ + 1]
                /\ pc' = "propose"
                /\ UNCHANGED <<cache, resp>>
         ELSE IF ~StatusOk(answer)
           THEN /\ resp' = Response(500, "Failed to get weather data", NoResult)
                /\ trace' = [trace EXCEPT !.weatherLookups = @ + 1, !.weather = @ + 1,
                                          !.weatherFailed = (answer = NoWeather)]
                /\ pc' = "done"
                /\ UNCHANGED <<cache, locals>>
         ELSE /\ cache' = CacheSet(cache, key, answer, WEATHER_TTL, now)
              /\ locals' = [locals EXCEPT !.weather_data = answer]
              /\ trace' = [trace EXCEPT !.weatherLookups = @ + 1, !.weather = @ + 1,
                                        !.cacheSets = @ + 1,
                                        !.weatherFailed = (answer = NoWeather)]
              /\ pc' = "propose"
              /\ UNCHANGED resp
  /\ UNCHANGED <<scope, config, now, req, prev, left, ticks>>

\* line 206: the keyword proposal, the completion answering `ai`
Propose(ai) ==
  /\ pc = "propose"
  /\ locals' = [locals EXCEPT !.activities =
                  get_multiple_activities_from_ai(locals.weather_data,
                                                  locals.max_activities,
                                                  req.activities, ai)]
  /\ trace' = [trace EXCEPT !.proposer = @ + 1]
  /\ pc' = "submit"
  /\ UNCHANGED <<scope, config, now, cache, req, resp, prev, left, ticks>>

\* lines 211, 505-510: the pool and one future per proposed keyword.
\* ThreadPoolExecutor(max_workers=0) raises ValueError, which the handler's
\* except turns into the 500 response.
StartFanOut ==
  /\ pc = "submit"
  /\ IF Len(locals.activities) = 0
       THEN /\ resp' = Response(500, "Failed to get activity suggestions", NoResult)
            /\ pc' = "done"
            /\ UNCHANGED locals
     ELSE /\ locals' = [locals EXCEPT !.pending = 1..Len(locals.activities)]
          /\ pc' = "fanout"
          /\ UNCHANGED resp
  /\ UNCHANGED <<scope, config, now, cache, req, trace, prev, left, ticks>>

\* lines 484-493, 513-518: the search of keyword number i completes, the
\* provider answering `ans`, and as_completed hands its bundle to the loop.
\* The per-activity limit is the fourth argument of the call at line 211:
\* max_activities.
CompleteSearch(i, ans) ==
  /\ pc = "fanout"
  /\ i \in locals.pending
  /\ LET found == get_nearby_places(config.googleKey, TRUE, TRUE,
                                    locals.activities[i], ans.a, ans.b)
         result == fetch_places_for_activity(locals.activities[i], found,
                                             locals.max_activities)
     IN  /\ locals' = [locals EXCEPT
                         !.pending = @ \ {i},
                         !.activities_with_places = Collect(@, result)]
         /\ trace' = [trace EXCEPT
                        !.searches = @ + 1,
                        !.places = @ + found.nearby,
                        !.failed = IF /\ found.nearby >= 1
                                      /\ ans.a.kind = "raise"
                                      /\ found.nearby = 2 => ans.b.kind = "raise"
                                     THEN @ \cup {i} ELSE @]
  /\ UNCHANGED <<scope, config, now, cache, pc, req, resp, prev, left, ticks>>

\* a bug the collecting could have: going on before every future was handed
\* over
CollectedSome(l) == TRUE

\* the for loop over as_completed(future_to_activity) has ended, and the
\* with block of the pool has been left: every submitted search is finished
\* and its result collected
CollectedAll(l) == l.pending = {}

\* lines 530-533, 215-230: sort, build the result, cache it, answer
Finish ==
  /\ pc = "fanout"
  /\ CollectedAll(locals)
  /\ LET result ==
           [activities |-> SortByTotal(locals.activities_with_places),
            weather |-> locals.weather_data,
            location |-> [latitude |-> req.latitude, longitude |-> req.longitude]]
     IN  /\ cache' = StoreResult(cache, locals.cache_key, result, now)
         /\ resp' = Response(200, "", result)
  /\ trace' = [trace EXCEPT !.cacheSets = @ + 1, !.storedAt = now]
  /\ pc' = "done"
  /\ UNCHANGED <<scope, config, now, req, locals, prev, left, ticks>>

\* the response leaves; the next request can come
Return ==
  /\ pc = "done"
  /\ prev' = [prev EXCEPT ![req] = [seen |-> TRUE, resp |-> resp,
                                    storedAt |-> trace.storedAt]]
  /\ pc' = "idle"
  /\ req' = NoRequest
  /\ locals' = NoLocals
  /\ resp' = NoResponse
  /\ trace' = NoTrace
  /\ UNCHANGED <<scope, config, now, cache, left, ticks>>

\* time passes.  The handler reads the clock only in cache.get and cache.set:
\* time passing anywhere between two of them is time passing before the
\* later one.
Tick(d) ==
  /\ ticks > 0
  /\ (pc = "idle" /\ left > 0) \/ pc = "weather"
     \/ (pc = "fanout" /\ locals.pending = {})
  /\ now' = now + d
  /\ ticks' = ticks - 1
  /\ UNCHANGED <<scope, config, cache, pc, req, locals, resp, trace, prev, left>>

Receive ==
  /\ \E r \in Requests(scope) : HandleRequest(r)
  /\ UNCHANGED <<propVars, placeVars, fan, sideVars>>

Weather ==
  /\ \E answer \in WeatherAnswers(scope) : FetchWeather(answer)
  /\ UNCHANGED <<propVars, placeVars, fan, sideVars>>

Keywords ==
  /\ \E ai \in AiAnswers(scope, config) : Propose(ai)
  /\ UNCHANGED <<propVars, placeVars, fan, sideVars>>

Submit == StartFanOut /\ UNCHANGED <<propVars, placeVars, fan, sideVars>>

Search ==
  /\ \E i \in locals.pending, ans \in SearchAnswers(scope, config) :
       CompleteSearch(i, ans)
  /\ UNCHANGED <<propVars, placeVars, fan, sideVars>>

Answer == Finish /\ UNCHANGED <<propVars, placeVars, fan, sideVars>>

Done == Return /\ UNCHANGED <<propVars, placeVars, fan, sideVars>>

Clock ==
  /\ \E d \in {1800} : Tick(d)
  /\ UNCHANGED <<propVars, placeVars, fan, sideVars>>

NextAggregate ==
  Receive \/ Weather \/ Keywords \/ Submit \/ Search \/ Answer \/ Done

Next ==
  Receive \/ Weather \/ Keywords \/ Submit \/ Search \/ Answer \/ Done \/ Clock

\* repeated requests against the cache, with the clock
Spec == InitCache /\ [][Next]_vars

\* one request, from the proposal to the result
SpecAggregate == InitAggregate /\ [][NextAggregate]_vars

\* repeated requests, no time passing between them
SpecKeys == InitKeys /\ [][NextAggregate]_vars


(***************************************************************************)
(* Claims about the handler and the result cache, under Spec.              *)
(***************************************************************************)
NoOutboundCall ==
  /\ trace.weather = 0
  /\ trace.proposer = 0
  /\ trace.searches = 0
  /\ trace.places = 0

\* the request being answered repeats a payload whose last handling wrote
\* the result cache, and its cache lookup came within the TTL of that write
RepeatWithinTTL ==
  /\ pc = "done"
  /\ prev[req].seen
  /\ prev[req].storedAt >= 0
  /\ trace.arrived - prev[req].storedAt < RESULT_TTL

\* C1: of two consecutive requests with the same coordinates, max_activities
\* and preferences, the second arriving within 3600 s of the entry the first
\* stored, the second returns the result of the first and calls neither the
\* weather provider nor the keyword proposer nor the places provider.
C1_RepeatServedFromCache ==
  RepeatWithinTTL => (resp = prev[req].resp /\ NoOutboundCall)

\* C1's case has happened: a request stored its result, time passed, and the
\* same request was answered from the cache with that result
C1_Witness ==
  /\ RepeatWithinTTL
  /\ trace.arrived > prev[req].storedAt
  /\ trace.hit
  /\ resp.status = 200
  /\ resp.result.activities # <<>>

\* C2: no result is returned from the cache more than 3600 s after it was
\* stored, and once the entry under the key is 3600 s old the request
\* recomputes: it fetches the weather and, if that succeeds, proposes,
\* searches and stores a new result.
C2_NoStaleResult ==
  pc = "done" =>
    /\ trace.hit => trace.entryAge <= RESULT_TTL
    /\ trace.entryAge >= RESULT_TTL =>
         /\ ~trace.hit
         /\ trace.weatherLookups = 1
         /\ resp.status = 200 =>
              /\ trace.proposer = 1
              /\ trace.searches >= 1
              /\ trace.storedAt >= trace.arrived

\* C2's case has happened: the entry under the key had expired and the
\* request recomputed and stored a result
C2_Witness ==
  /\ pc = "done"
  /\ trace.entryAge >= RESULT_TTL
  /\ ~trace.hit
  /\ resp.status = 200
  /\ trace.storedAt >= trace.arrived

\* C10: a request without a latitude or without a longitude is answered with
\* status 400 (missing coordinates), having written nothing to the cache and
\* called neither the weather provider nor the proposer nor the places
\* provider.
C10_MissingCoordinateIsBadRequest ==
  (pc = "done" /\ (req.latitude = Missing \/ req.longitude = Missing)) =>
    /\ resp.status = 400
    /\ trace.cacheSets = 0
    /\ NoOutboundCall

\* C11: a request whose latitude or longitude is present but is not a number
\* is answered with status 400, not with an internal-failure status, having
\* called neither the weather provider nor the proposer nor the places
\* provider and written nothing to the cache.
C11_NonNumericCoordinateIsBadRequest ==
  (pc = "done" /\ ~Falsy(req.latitude) /\ ~Falsy(req.longitude)
     /\ (FloatRaises(req.latitude) \/ FloatRaises(req.longitude))) =>
    /\ resp.status = 400
    /\ trace.cacheSets = 0
    /\ NoOutboundCall

\* C12: when the weather fetch fails (a status other than 200, or the request
\* raises) the request is answered with status 500, no keyword proposal and
\* no place search is started, and neither the weather cache nor the result
\* cache is written.
C12_WeatherFailureIsFatal ==
  trace.weatherFailed =>
    /\ pc = "done"
    /\ resp.status = 500
    /\ resp.error = "Failed to get weather data"
    /\ trace.proposer = 0
    /\ trace.searches = 0
    /\ trace.places = 0
    /\ trace.cacheSets = 0
    /\ WeatherKey(req.latitude, req.longitude) \notin DOMAIN cache
          \/ cache[WeatherKey(req.latitude, req.longitude)].value # NoWeather
    /\ locals.cache_key \notin DOMAIN cache
          \/ cache[locals.cache_key].stored < trace.arrived

\* C12's case has happened: the provider gave no answer and the request was
\* answered with status 500, and so was the same request before it, which
\* left nothing in either cache
C12_Witness ==
  /\ pc = "done"
  /\ trace.weatherFailed
  /\ trace.weather = 1
  /\ resp.status = 500
  /\ prev[req].seen
  /\ prev[req].resp.status = 500
  /\ cache = [k \in {} |-> NoPrev]

\* two payloads with the same coordinates and max_activities
SamePlaceAndCount(r1, r2) ==
  /\ r1.latitude = r2.latitude
  /\ r1.longitude = r2.longitude
  /\ r1.max_activities = r2.max_activities

\* C20: a request in which no preference flag is enabled (preferences absent,
\* an empty object, or an object whose flags are all false) gets the
\* fingerprint 'all' in its result-cache key, and so is served from the entry
\* that an earlier request without enabled flag, with the same coordinates
\* and max_activities, stored less than 3600 s before.
C20_NoFlagFingerprintIsAll ==
  NoFlagEnabled(req.activities) =>
    /\ pc = "weather" => locals.cache_key.prefs = <<"all">>
    /\ pc = "done" =>
         \A r \in Requests(scope) :
           (/\ NoFlagEnabled(r.activities)
            /\ SamePlaceAndCount(r, req)
            /\ prev[r].storedAt >= 0
            /\ trace.arrived - prev[r].storedAt < RESULT_TTL) => trace.hit

(***************************************************************************)
(* Claims about the result, under SpecAggregate.                           *)
(***************************************************************************)
\* max_places_per_activity=3, the default of get_places_for_all_activities
DEFAULT_MAX_PLACES == 3

\* C3: for every request and every outcome of the proposal and the searches
\* the activities list of the returned result has at most max_activities
\* bundles.
C3_AtMostMaxActivities ==
  (pc = "done" /\ resp.status = 200) =>
    Len(resp.result.activities) <= ParseMax(req.max_activities)

\* C4: every bundle of every result has at most 3 places (the default of
\* max_places_per_activity), whatever max_activities was asked for and however
\* many places the search found.  Stated for the requests with
\* max_activities >= 1 among those the claim covers.
C4_AtMostThreePlaces ==
  (pc = "done" /\ resp.status = 200 /\ ParseMax(req.max_activities) >= 1) =>
    \A i \in 1..Len(resp.result.activities) :
      Len(resp.result.activities[i].places) <= DEFAULT_MAX_PLACES

\* C13: once validation has passed and the weather fetch has succeeded, the
\* request is answered with status 200 and a result, for every outcome of the
\* keyword proposal and every combination of outcomes of the searches.
\* Stated for the requests with max_activities >= 1 among those the claim
\* covers.
C13_SuccessAfterWeather ==
  (pc = "done" /\ trace.weatherLookups = 1 /\ ~trace.weatherFailed
     /\ ParseMax(req.max_activities) >= 1) =>
    resp.status = 200

\* the result has a bundle of this keyword with no places, total_places_found
\* 0 and the error marker
HasErrorBundle(activities, keyword) ==
  \E j \in 1..Len(activities) :
    /\ activities[j].activity_type = keyword
    /\ activities[j].places = <<>>
    /\ activities[j].total_places_found = 0
    /\ activities[j].error

\* C16: when the place search of a keyword raises, the request is still
\* answered with status 200 and the result has a bundle of that keyword with
\* no places, total_places_found 0 and the error marker.  Stated for the
\* requests with max_activities >= 1 among those the claim covers.
C16_FailedSearchKeepsErrorBundle ==
  (pc = "done" /\ trace.failed # {} /\ ParseMax(req.max_activities) >= 1) =>
    /\ resp.status = 200
    /\ \A i \in trace.failed :
         HasErrorBundle(resp.result.activities, locals.activities[i])

\* C19: a response with status 200 never has an empty activities list: when
\* no keyword yields a place the result carries error-marked bundles, or the
\* response is an error.  Stated for the requests with max_activities >= 1
\* among those the claim covers.
C19_NoSilentEmptyResult ==
  (pc = "done" /\ resp.status = 200 /\ ParseMax(req.max_activities) >= 1) =>
    resp.result.activities # <<>>

(***************************************************************************)
(* get_places_for_all_activities on its own: the pool, its worker threads  *)
(* and the as_completed loop.  The searches are get_nearby_places calls,   *)
(* each described by what it returns and by how long it runs.              *)
(***************************************************************************)
\* ThreadPoolExecutor(max_workers=min(len(activities), 5))
POOL_CEILING == 5
\* future.result(timeout=10)
RESULT_TIMEOUT == 10

\* a bug the pool could have: one worker per keyword
OneWorkerPerKeyword(activities) == Len(activities)

\* min(len(activities), 5)
max_workers(activities) == Min(Len(activities), POOL_CEILING)

FanKeywords ==
  <<"park", "spa", "museum", "cafe", "gym", "bar", "cinema", "zoo", "mall">>

\* a search that returns k places after running for `seconds`
Outcome(k, seconds) ==
  [found |-> [places |-> SubSeq(NinePlaces, 1, k), nearby |-> 1, others |-> 2 * k,
              raised |-> FALSE],
   seconds |-> seconds, completes |-> TRUE]

\* a search whose provider call never returns
Hung == [Outcome(2, 1) EXCEPT !.completes = FALSE]

\* nothing found, two places, two places after 12 s, four places
MixedOutcomes == {Outcome(0, 1), Outcome(2, 1), Outcome(2, 12), Outcome(4, 1)}

\* short keyword lists with every combination of outcomes, and lists longer
\* than the pool is wide, of searches that each find one place
FanInputs ==
  UNION {{[activities |-> SubSeq(FanKeywords, 1, n), outcome |-> o] :
            o \in [1..n -> MixedOutcomes]} : n \in 0..MaxMixed}
  \cup {[activities |-> SubSeq(FanKeywords, 1, n),
         outcome |-> [i \in 1..n |-> Outcome(1, 1)]] :
          n \in (POOL_CEILING + 1)..MaxKeywords}

\* pc: "call", "pool" (tasks submitted, as_completed not yet called),
\* "collect" (in the for loop), "returned", "raised".  started: the tasks the
\* workers have taken, in submission order.  done: the futures finished
\* before as_completed is called.  early: those of them not yet handed to the
\* loop.  late: the futures finished after the call and not yet handed to the
\* loop, in order of completion.  arrived: the keywords (by position) in the
\* order the loop received them.  completed: the keywords in the order their
\* searches completed, kept for the short lists, about which the order of
\* completion is asked.
InitFanOut ==
  /\ fan \in {[activities |-> in.activities, outcome |-> in.outcome,
               max_places_per_activity |-> DEFAULT_MAX_PLACES,
               pc |-> "call", workers |-> 0, started |-> 0, running |-> {},
               done |-> {}, early |-> {}, late |-> <<>>,
               activities_with_places |-> <<>>, result |-> <<>>,
               completed |-> <<>>, arrived |-> <<>>] : in \in FanInputs}
  /\ propIn = Unused /\ propOut = Unused
  /\ placeIn = Unused /\ placeOut = Unused
  /\ scope = Unused /\ config = Unused /\ now = Unused /\ cache = Unused
  /\ pc = Unused /\ req = Unused /\ locals = Unused /\ resp = Unused
  /\ trace = Unused /\ prev = Unused /\ left = Unused /\ ticks = Unused
  /\ travel = Unused /\ details = Unused /\ userPrefs = Unused
  /\ wx = Unused /\ hist = Unused

\* line 505 and 507-510: the pool is built and every keyword submitted.
\* ThreadPoolExecutor raises ValueError when max_workers is 0.
CreatePool ==
  /\ fan.pc = "call"
  /\ IF max_workers(fan.activities) <= 0
       THEN fan' = [fan EXCEPT !.pc = "raised"]
     ELSE fan' = [fan EXCEPT !.pc = "pool",
                             !.workers = max_workers(fan.activities)]
  /\ UNCHANGED <<propVars, placeVars, pipeVars, sideVars>>

\* a worker of the pool takes the next submitted task: at most `workers`
\* threads exist
StartSearch ==
  /\ fan.pc \in {"pool", "collect"}
  /\ fan.started < Len(fan.activities)
  /\ Cardinality(fan.running) < fan.workers
  /\ fan' = [fan EXCEPT !.started = @ + 1, !.running = @ \cup {fan.started + 1}]
  /\ UNCHANGED <<propVars, placeVars, pipeVars, sideVars>>

\* fetch_places_for_activity returns in its thread: the future is finished
FinishSearch ==
  /\ \E i \in fan.running :
       /\ fan.outcome[i].completes
       /\ fan' = [fan EXCEPT
                    !.running = @ \ {i},
                    !.completed = IF Len(fan.activities) <= MaxMixed
                                    THEN Append(@, i) ELSE @,
                    !.done = IF fan.pc = "pool" THEN @ \cup {i} ELSE @,
                    !.late = IF fan.pc = "pool" THEN @ ELSE Append(@, i)]
  /\ UNCHANGED <<propVars, placeVars, pipeVars, sideVars>>

\* line 513, as_completed(future_to_activity) is called: the futures already
\* finished are put aside as a set, to be handed over first
AsCompleted ==
  /\ fan.pc = "pool"
  /\ fan' = [fan EXCEPT !.pc = "collect", !.early = fan.done]
  /\ UNCHANGED <<propVars, placeVars, pipeVars, sideVars>>

\* lines 513-518, one turn of the loop: as_completed hands over a finished
\* future (one of the set put aside, in no particular order, then the others
\* in order of completion); future.result(timeout=10) of a finished future
\* returns at once, however long the search ran, so the except branch of
\* lines 519-528 is not taken
CollectResult ==
  /\ fan.pc = "collect"
  /\ \E i \in 1..Len(fan.activities) :
       /\ \/ i \in fan.early
          \/ fan.early = {} /\ fan.late # <<>> /\ i = Head(fan.late)
       /\ LET result == fetch_places_for_activity(fan.activities[i],
                                                  fan.outcome[i].found,
                                                  fan.max_places_per_activity)
          IN  fan' = [fan EXCEPT
                        !.early = @ \ {i},
                        !.late = IF i \in fan.early THEN @ ELSE Tail(@),
                        !.arrived = Append(@, i),
                        !.activities_with_places = Collect(@, result)]
  /\ UNCHANGED <<propVars, placeVars, pipeVars, sideVars>>

\* lines 530-533: every future has been handed over; sort and return
SortAndReturn ==
  /\ fan.pc = "collect"
  /\ Len(fan.arrived) = Len(fan.activities)
  /\ fan' = [fan EXCEPT !.pc = "returned",
                        !.result = SortByTotal(fan.activities_with_places)]
  /\ UNCHANGED <<propVars, placeVars, pipeVars, sideVars>>

NextFanOut ==
  CreatePool \/ StartSearch \/ FinishSearch \/ AsCompleted \/ CollectResult
  \/ SortAndReturn

SpecFanOut == InitFanOut /\ [][NextFanOut]_vars

\* the same call with searches that may never return: every combination of
\* a search without places, a search with two places and a hung search
LiveInputs ==
  UNION {{[activities |-> SubSeq(FanKeywords, 1, n), outcome |-> o] :
            o \in [1..n -> {Outcome(0, 1), Outcome(2, 1), Hung}]} : n \in 0..MaxMixed}

InitFanOutLive ==
  /\ fan \in {[activities |-> in.activities, outcome |-> in.outcome,
               max_places_per_activity |-> DEFAULT_MAX_PLACES,
               pc |-> "call", workers |-> 0, started |-> 0, running |-> {},
               done |-> {}, early |-> {}, late |-> <<>>,
               activities_with_places |-> <<>>, result |-> <<>>,
               completed |-> <<>>, arrived |-> <<>>] : in \in LiveInputs}
  /\ propIn = Unused /\ propOut = Unused /\ placeIn = Unused /\ placeOut = Unused
  /\ scope = Unused /\ config = Unused /\ now = Unused /\ cache = Unused
  /\ pc = Unused /\ req = Unused /\ locals = Unused /\ resp = Unused
  /\ trace = Unused /\ prev = Unused /\ left = Unused /\ ticks = Unused
  /\ travel = Unused /\ details = Unused /\ userPrefs = Unused
  /\ wx = Unused /\ hist = Unused

\* the request thread and the worker threads are scheduled by the operating
\* system: a step that stays possible is eventually taken.  Nothing is
\* assumed about a provider call that does not return.
SpecFanOutLive ==
  /\ InitFanOutLive
  /\ [][NextFanOut]_vars
  /\ WF_vars(CreatePool) /\ WF_vars(StartSearch) /\ WF_vars(FinishSearch)
  /\ WF_vars(AsCompleted) /\ WF_vars(CollectResult) /\ WF_vars(SortAndReturn)

(***************************************************************************)
(* Claims about the fan-out, under SpecFanOut.                             *)
(***************************************************************************)
\* the search of keyword number i runs longer than the timeout of
\* future.result
Slow(i) == fan.outcome[i].seconds > RESULT_TIMEOUT

\* the result has the bundle the search of keyword number i yields when it
\* finds places
HasOwnBundle(i) ==
  \E j \in 1..Len(fan.result) :
    fan.result[j] = fetch_places_for_activity(fan.activities[i], fan.outcome[i].found,
                                              fan.max_places_per_activity)

\* C14: when the search of a keyword runs longer than the 10 s timeout, the
\* call still returns, the result has a bundle of that keyword with no places
\* and the error marker, and the bundles of the other keywords are as their
\* searches made them.
C14_TimedOutSearchGetsErrorBundle ==
  fan.pc = "returned" =>
    \A i \in 1..Len(fan.activities) :
      IF Slow(i) THEN HasErrorBundle(fan.result, fan.activities[i])
      ELSE fan.outcome[i].found.places # <<>> => HasOwnBundle(i)

\* C15: at every moment of the fan-out at most min(number of keywords, 5)
\* searches are in flight, however many keywords there are.
C15_InFlightBounded ==
  fan.pc \in {"pool", "collect", "returned"} =>
    /\ Cardinality(fan.running) <= Len(fan.activities)
    /\ Cardinality(fan.running) <= POOL_CEILING

\* C15's case has happened: five searches are in flight and a sixth keyword
\* waits for a worker
C15_Witness ==
  /\ fan.pc \in {"pool", "collect"}
  /\ Len(fan.activities) > POOL_CEILING
  /\ Cardinality(fan.running) = POOL_CEILING
  /\ fan.started < Len(fan.activities)

\* the position of keyword number i in an order of keyword numbers
PosIn(order, i) == CHOOSE k \in 1..Len(order) : order[k] = i

\* the number of the keyword of a bundle (the keywords of a list are distinct)
KeywordOf(bundle) ==
  CHOOSE i \in 1..Len(fan.activities) : fan.activities[i] = bundle.activity_type

SortedDescending(result) ==
  \A j, k \in 1..Len(result) :
    j < k => result[j].total_places_found >= result[k].total_places_found

\* bundles with equal totals stand in the result as their keywords stand in
\* `order`
TiesFollow(result, order) ==
  \A j, k \in 1..Len(result) :
    (j < k /\ result[j].total_places_found = result[k].total_places_found) =>
      PosIn(order, KeywordOf(result[j])) < PosIn(order, KeywordOf(result[k]))

\* the call has returned and the order of completion of its searches was kept
ReturnedShortList ==
  fan.pc = "returned" /\ Len(fan.completed) = Len(fan.activities)

\* C17 as stated: the returned list is ordered by total_places_found
\* descending, and bundles with equal total_places_found stand in the order
\* in which their searches completed, for every completion order.
C17_TiesInCompletionOrder ==
  ReturnedShortList =>
    /\ SortedDescending(fan.result)
    /\ TiesFollow(fan.result, fan.completed)

\* C17 as amended: the returned list is ordered by total_places_found
\* descending, and bundles with equal total_places_found stand in the order
\* in which the collecting loop received them from as_completed, for every
\* completion order; that is the order of completion for the searches that
\* complete after as_completed is called.
C17_TiesInArrivalOrder ==
  fan.pc = "returned" =>
    /\ SortedDescending(fan.result)
    /\ TiesFollow(fan.result, fan.arrived)
    /\ (ReturnedShortList /\ fan.done = {}) => TiesFollow(fan.result, fan.completed)

\* C17's case has happened: three bundles, the one with most places received
\* last and returned first, the two others with equal totals
C17_Witness ==
  /\ fan.pc = "returned"
  /\ Len(fan.result) = 3
  /\ KeywordOf(fan.result[1]) = fan.arrived[3]
  /\ fan.result[1].total_places_found > fan.result[2].total_places_found
  /\ fan.result[2].total_places_found = fan.result[3].total_places_found
  /\ KeywordOf(fan.result[2]) > KeywordOf(fan.result[3])

(***************************************************************************)
(* get_travel_times on its own.                                            *)
(*                                                                         *)
(* An answer of the distance-matrix provider is [kind, status, time,       *)
(* distance]: kind "raise" (the query raises), "norows" (an answer without *)
(* rows), "nofields" (an element of status OK without duration), or "ok"   *)
(* with the element's status and its duration and distance texts.          *)
(***************************************************************************)
\* None
Null == "null"

\* the four fields None: the value of the no-key branch and of the handler
NoTravelTimes ==
  [walking_time |-> Null, driving_time |-> Null,
   walking_distance |-> Null, driving_distance |-> Null, raised |-> FALSE]

\* a bug get_travel_times could have: no handler, the exception reaches the
\* caller
TravelPropagates == [NoTravelTimes EXCEPT !.raised = TRUE]

\* except Exception as e: return {... None ...}
TravelOnException == NoTravelTimes

\* result['rows'][0]['elements'][0]['duration']['text'] raises KeyError
ParseRaises(answer) == answer.kind = "nofields"

\* rows and rows[0]['elements'] and elements[0]['status'] == 'OK'
ElementOk(answer) == answer.kind = "ok" /\ answer.status = "OK"

\* Returns the four fields and the number of distance-matrix queries made.
get_travel_times(key, client, walking, driving) ==
  IF ~key THEN [fields |-> NoTravelTimes, matrix |-> 0]
  ELSE IF ~client THEN [fields |-> TravelOnException, matrix |-> 0]
  ELSE IF walking.kind = "raise" THEN [fields |-> TravelOnException, matrix |-> 1]
  ELSE IF driving.kind = "raise" THEN [fields |-> TravelOnException, matrix |-> 2]
  ELSE IF ParseRaises(walking) \/ ParseRaises(driving)
    THEN [fields |-> TravelOnException, matrix |-> 2]
  ELSE [fields |->
          [walking_time |-> IF ElementOk(walking) THEN walking.time ELSE Null,
           driving_time |-> IF ElementOk(driving) THEN driving.time ELSE Null,
           walking_distance |-> IF ElementOk(walking) THEN walking.distance ELSE Null,
           driving_distance |-> IF ElementOk(driving) THEN driving.distance ELSE Null,
           raised |-> FALSE],
        matrix |-> 2]

MatrixAnswers ==
  {[kind |-> "raise", status |-> "", time |-> "", distance |-> ""],
   [kind |-> "norows", status |-> "", time |-> "", distance |-> ""],
   [kind |-> "nofields", status |-> "OK", time |-> "", distance |-> ""],
   [kind |-> "ok", status |-> "ZERO_RESULTS", time |-> "", distance |-> ""],
   [kind |-> "ok", status |-> "OK", time |-> "15 mins", distance |-> "1.2 km"],
   [kind |-> "ok", status |-> "OK", time |-> "5 mins", distance |-> "0.8 km"]}

InitTravel ==
  /\ travel \in [key : BOOLEAN, client : BOOLEAN, walking : MatrixAnswers,
                 driving : MatrixAnswers, done : {FALSE},
                 out : {[fields |-> NoTravelTimes, matrix |-> 0]}]
  /\ propIn = Unused /\ propOut = Unused /\ placeIn = Unused /\ placeOut = Unused
  /\ scope = Unused /\ config = Unused /\ now = Unused /\ cache = Unused
  /\ pc = Unused /\ req = Unused /\ locals = Unused /\ resp = Unused
  /\ trace = Unused /\ prev = Unused /\ left = Unused /\ ticks = Unused
  /\ fan = Unused /\ details = Unused /\ userPrefs = Unused
  /\ wx = Unused /\ hist = Unused

\* one call of get_travel_times
TravelTimes ==
  /\ ~travel.done
  /\ travel' = [travel EXCEPT
                  !.done = TRUE,
                  !.out = get_travel_times(travel.key, travel.client,
                                           travel.walking, travel.driving)]
  /\ UNCHANGED <<propIn, propOut, placeIn, placeOut, scope, config, now, cache, pc, req, locals, resp, trace, prev, left, ticks, fan, details, userPrefs, wx, hist>>

SpecTravel == InitTravel /\ [][TravelTimes]_vars

\* a distance-matrix query was made and raised
MatrixQueryRaised ==
  /\ travel.done
  /\ travel.key
  /\ travel.client
  /\ travel.walking.kind = "raise" \/ travel.driving.kind = "raise"

AllFieldsNull(fields) ==
  /\ fields.walking_time = Null
  /\ fields.walking_distance = Null
  /\ fields.driving_time = Null
  /\ fields.driving_distance = Null

\* C21: get_travel_times never raises to its caller, and when the walking or
\* the driving distance-matrix query raises it returns walking_time,
\* walking_distance, driving_time and driving_distance all null, also the
\* fields of the mode whose query had succeeded.
C21_TravelTimesAllNullOnException ==
  travel.done =>
    /\ ~travel.out.fields.raised
    /\ MatrixQueryRaised => AllFieldsNull(travel.out.fields)

\* C21's case has happened: the walking query answered with a duration and a
\* distance, the driving query raised, and all four fields are null
C21_Witness ==
  /\ MatrixQueryRaised
  /\ ElementOk(travel.walking)
  /\ travel.driving.kind = "raise"
  /\ travel.out.matrix = 2
  /\ AllFieldsNull(travel.out.fields)

(***************************************************************************)
(* get_place_details: the details of one place, cached per place.          *)
(***************************************************************************)
\* cache.set(cache_key, result, 3600)
DETAILS_TTL == 3600

\* "Cache duration: 2 hours (7200 seconds)" in the docstring of
\* get_place_details
DOCUMENTED_DETAILS_TTL == 7200

\* f'place_details_{place_id}'
DetailsKey(place_id) == <<"place_details", place_id>>

PlaceIdsAsked == {"ChIJ1", "ChIJ2"}

\* gmaps.place(...): a record with a result, a record without, or an exception
DetailAnswers == {"found", "not_found", "raises"}

NoDetailsCall ==
  [place_id |-> "", status |-> 0, error |-> "", result |-> "", fromCache |-> FALSE,
   providerCalls |-> 0, entryAge |-> -1]

InitDetails ==
  /\ details \in [key : BOOLEAN, now : {0}, cache : {<<>>}, left : {MaxRequests},
                  ticks : {MaxTicks}, last : {NoDetailsCall}]
  /\ propIn = Unused /\ propOut = Unused /\ placeIn = Unused /\ placeOut = Unused
  /\ scope = Unused /\ config = Unused /\ now = Unused /\ cache = Unused
  /\ pc = Unused /\ req = Unused /\ locals = Unused /\ resp = Unused
  /\ trace = Unused /\ prev = Unused /\ left = Unused /\ ticks = Unused
  /\ fan = Unused /\ travel = Unused /\ userPrefs = Unused
  /\ wx = Unused /\ hist = Unused

\* one GET of get_place_details; entryAge is the time since the result of
\* this place was last cached, -1 when it never was
get_place_details(d, place_id, answer) ==
  LET cache_key == DetailsKey(place_id)
      age == IF cache_key \in DOMAIN d.cache
               THEN d.now - d.cache[cache_key].stored ELSE -1
      call == [NoDetailsCall EXCEPT !.place_id = place_id, !.entryAge = age]
  IN  IF ~d.key
        THEN [d EXCEPT !.last = [call EXCEPT
                                   !.status = 500,
                                   !.error = "Google Maps API key not configured"]]
      ELSE IF CacheHit(d.cache, cache_key, d.now)
        THEN [d EXCEPT !.last = [call EXCEPT !.status = 200,
                                             !.result = d.cache[cache_key].value,
                                             !.fromCache = TRUE]]
      ELSE IF answer = "raises"
        THEN [d EXCEPT !.last = [call EXCEPT !.status = 500,
                                             !.error = "Failed to get place details",
                                             !.providerCalls = 1]]
      ELSE IF answer = "not_found"
        THEN [d EXCEPT !.last = [call EXCEPT !.status = 404,
                                             !.error = "Place not found",
                                             !.providerCalls = 1]]
      ELSE [d EXCEPT !.cache = CacheSet(d.cache, cache_key, place_id, DETAILS_TTL,
                                        d.now),
                     !.last = [call EXCEPT !.status = 200, !.result = place_id,
                                           !.providerCalls = 1]]

PlaceDetails ==
  /\ details.left > 0
  /\ \E place_id \in PlaceIdsAsked, answer \in DetailAnswers :
       details' = [get_place_details(details, place_id, answer)
                     EXCEPT !.left = details.left - 1]
  /\ UNCHANGED <<propIn, propOut, placeIn, placeOut, scope, config, now, cache, pc, req, locals, resp, trace, prev, left, ticks, fan, travel, userPrefs, wx, hist>>

\* time passes between two requests
DetailsClock ==
  /\ details.ticks > 0
  /\ details.left > 0
  /\ details' = [details EXCEPT !.now = @ + 1800, !.ticks = @ - 1]
  /\ UNCHANGED <<propIn, propOut, placeIn, placeOut, scope, config, now, cache, pc, req, locals, resp, trace, prev, left, ticks, fan, travel, userPrefs, wx, hist>>

NextDetails == PlaceDetails \/ DetailsClock

SpecDetails == InitDetails /\ [][NextDetails]_vars

\* C23: the result of get_place_details is cached under the key of the place
\* for 7200 seconds, so a request for a place whose result was cached less
\* than 7200 seconds ago is answered from the cache, without provider call.
C23_DetailsCachedFor7200 ==
  (details.last.status # 0 /\ details.key
     /\ details.last.entryAge >= 0
     /\ details.last.entryAge < DOCUMENTED_DETAILS_TTL) =>
    /\ details.last.fromCache
    /\ details.last.providerCalls = 0

\* what the code does: the same with the 3600 seconds of the cache.set
DetailsCachedForTtl ==
  (details.last.status # 0 /\ details.key
     /\ details.last.entryAge >= 0
     /\ details.last.entryAge < DETAILS_TTL) =>
    /\ details.last.fromCache
    /\ details.last.providerCalls = 0

(***************************************************************************)
(* UserPreferences.add_preferred_activity / remove_preferred_activity      *)
(* (models.py): one UserPreferences object, its list starting empty.       *)
(***************************************************************************)
MaxCalls == 4

ActivityTypes == {"hiking", "museum", "cafe"}

\* list.remove(x): removes the first occurrence
RemoveFirst(list, x) ==
  LET i == CHOOSE j \in 1..Len(list) :
             list[j] = x /\ \A k \in 1..(j - 1) : list[k] # x
  IN  SubSeq(list, 1, i - 1) \o SubSeq(list, i + 1, Len(list))

\* a bug add_preferred_activity could have: no membership test
AddAlways(list, activity_type) ==
  [list |-> Append(list, activity_type), saved |-> TRUE, returned |-> TRUE]

\* add_preferred_activity: the list after the call, whether save() ran, and
\* the value returned
add_preferred_activity(list, activity_type) ==
  IF ~InSeq(activity_type, list)
    THEN [list |-> Append(list, activity_type), saved |-> TRUE, returned |-> TRUE]
  ELSE [list |-> list, saved |-> FALSE, returned |-> FALSE]

\* remove_preferred_activity
remove_preferred_activity(list, activity_type) ==
  IF InSeq(activity_type, list)
    THEN [list |-> RemoveFirst(list, activity_type), saved |-> TRUE,
          returned |-> TRUE]
  ELSE [list |-> list, saved |-> FALSE, returned |-> FALSE]

NoPrefsCall ==
  [op |-> "none", activity_type |-> "", before |-> <<>>, returned |-> FALSE]

\* preferred_activity_types = JSONField(default=list); stored is the row of
\* the database
InitUserPrefs ==
  /\ userPrefs = [preferred_activity_types |-> <<>>, stored |-> <<>>,
                  left |-> MaxCalls, last |-> NoPrefsCall]
  /\ propIn = Unused /\ propOut = Unused /\ placeIn = Unused /\ placeOut = Unused
  /\ scope = Unused /\ config = Unused /\ now = Unused /\ cache = Unused
  /\ pc = Unused /\ req = Unused /\ locals = Unused /\ resp = Unused
  /\ trace = Unused /\ prev = Unused /\ left = Unused /\ ticks = Unused
  /\ fan = Unused /\ travel = Unused /\ details = Unused
  /\ wx = Unused /\ hist = Unused

AfterCall(op, activity_type, r) ==
  [preferred_activity_types |-> r.list,
   stored |-> IF r.saved THEN r.list ELSE userPrefs.stored,
   left |-> userPrefs.left - 1,
   last |-> [op |-> op, activity_type |-> activity_type,
             before |-> userPrefs.preferred_activity_types,
             returned |-> r.returned]]

AddPreferred ==
  /\ userPrefs.left > 0
  /\ \E activity_type \in ActivityTypes :
       userPrefs' = AfterCall("add", activity_type,
                      add_preferred_activity(userPrefs.preferred_activity_types,
                                             activity_type))
  /\ UNCHANGED <<propIn, propOut, placeIn, placeOut, scope, config, now, cache, pc, req, locals, resp, trace, prev, left, ticks, fan, travel, details, wx, hist>>

RemovePreferred ==
  /\ userPrefs.left > 0
  /\ \E activity_type \in ActivityTypes :
       userPrefs' = AfterCall("remove", activity_type,
                      remove_preferred_activity(userPrefs.preferred_activity_types,
                                                activity_type))
  /\ UNCHANGED <<propIn, propOut, placeIn, placeOut, scope, config, now, cache, pc, req, locals, resp, trace, prev, left, ticks, fan, travel, details, wx, hist>>

NextUserPrefs == AddPreferred \/ RemovePreferred

SpecUserPrefs == InitUserPrefs /\ [][NextUserPrefs]_vars

\* C24: starting from an empty list, under any sequence of add and remove
\* calls the list never holds a duplicate; add returns True exactly when the
\* type was absent and remove returns True exactly when it was present; a
\* call that returns False leaves the list unchanged.
C24_PreferredActivitiesAreASet ==
  LET last == userPrefs.last
      list == userPrefs.preferred_activity_types
  IN  /\ NoDuplicates(list)
      /\ last.op = "add" =>
           /\ last.returned <=> ~InSeq(last.activity_type, last.before)
           /\ InSeq(last.activity_type, list)
      /\ last.op = "remove" =>
           /\ last.returned <=> InSeq(last.activity_type, last.before)
           /\ ~InSeq(last.activity_type, list)
      /\ (last.op # "none" /\ ~last.returned) => list = last.before

\* C24's case has happened: an add of a type already present returned False
\* and left a list of two types unchanged
C24_Witness ==
  /\ userPrefs.last.op = "add"
  /\ ~userPrefs.last.returned
  /\ Len(userPrefs.preferred_activity_types) = 2
  /\ userPrefs.preferred_activity_types = userPrefs.last.before
  /\ userPrefs.left < MaxCalls - 2

(***************************************************************************)
(* Claims about a search that never completes, under SpecFanOutLive.       *)
(***************************************************************************)
HasHungSearch ==
  \E i \in 1..Len(fan.activities) : ~fan.outcome[i].completes

\* when every search completes the call returns (or, for an empty keyword
\* list, raises)
CompletingSearchesReturn ==
  ~HasHungSearch ~> fan.pc \in {"returned", "raised"}

\* C25: if one place search of a request never completes, the request still
\* eventually returns: waiting for that search is given up after its 10
\* seconds and the results of the other searches are returned.
C25_HungSearchStillReturns ==
  HasHungSearch ~> fan.pc = "returned"

(***************************************************************************)
(* Further claims about the handler, under Spec.                           *)
(***************************************************************************)
\* C26: a request passes through its stages in order: no weather call before
\* the result-cache lookup has missed, no place search before the weather
\* fetch has succeeded and the keywords were proposed, and the result-cache
\* write only after every submitted search of the request has completed.
C26_StagesInOrder ==
  /\ (trace.weatherLookups > 0 \/ trace.weather > 0) =>
       /\ ~trace.hit
       /\ ~Falsy(req.latitude) /\ ~Falsy(req.longitude)
       /\ locals.cache_key = ResultKey(req.latitude, req.longitude,
                                       locals.max_activities, req.activities)
  /\ trace.hit => trace.proposer = 0 /\ trace.searches = 0 /\ trace.cacheSets = 0
  /\ trace.proposer > 0 => StatusOk(locals.weather_data) /\ ~trace.weatherFailed
  /\ trace.searches > 0 =>
       /\ StatusOk(locals.weather_data) /\ ~trace.weatherFailed
       /\ trace.proposer = 1
  /\ trace.storedAt >= 0 =>
       /\ locals.pending = {}
       /\ Len(locals.activities) > 0
       /\ trace.searches = Len(locals.activities)
       /\ resp.status = 200

\* C26's case has happened: the result of a request with two searches was
\* stored and is about to be returned
C26_Witness ==
  /\ pc = "done"
  /\ trace.storedAt >= 0
  /\ trace.searches = 2
  /\ trace.weather = 1
  /\ resp.status = 200

(***************************************************************************)
(* Claims about validation and the result-cache key, under SpecKeys.       *)
(***************************************************************************)
\* C27: a request whose latitude and longitude are both present and numeric,
\* the value 0 included, passes validation: it is never answered with the
\* error 'Missing coordinates'.
C27_NumericCoordinatesPassValidation ==
  (pc = "done" /\ req.latitude.kind = "num" /\ req.longitude.kind = "num") =>
    ~(resp.status = 400 /\ resp.error = "Missing coordinates")

\* the names of the flags a payload enables
EnabledFlags(prefs) == {prefs[i].name : i \in {j \in 1..Len(prefs) : prefs[j].on}}

\* C30: two requests that enable the same set of preference flags get the
\* same result-cache key, whatever the order of the flags in the payload:
\* the later one is served from the entry the earlier one stored.
C30_FlagOrderDoesNotMatter ==
  pc = "done" =>
    \A r \in Requests(scope) :
      (/\ EnabledFlags(r.activities) = EnabledFlags(req.activities)
       /\ SamePlaceAndCount(r, req)
       /\ prev[r].storedAt >= 0
       /\ trace.arrived - prev[r].storedAt < RESULT_TTL) => trace.hit

(***************************************************************************)
(* Further claims about the fan-out, under SpecFanOut.                     *)
(***************************************************************************)
\* the bundles of the result that belong to keyword number i
BundlesOf(i) ==
  {j \in 1..Len(fan.result) : fan.result[j].activity_type = fan.activities[i]}

LEGACY_WEATHER_TTL == 604800

\* the seconds between two calls, half a day
HALF_DAY == 43200

\* two latitudes that agree after rounding to 4 decimals, in units of
\* 0.00001 degree: 48.85661 and 48.85664
NearbyLatitudes == {Num(4885661), Num(4885664)}

\* response.json() of the provider at time t; fetched is the time of the
\* outbound request
Snapshot(answer, t) ==
  [ok |-> TRUE, main |-> answer.main, temp |-> answer.temp, fetched |-> t]

NoSnapshot == [ok |-> FALSE, main |-> "none", temp |-> 0, fetched |-> -1]

ProviderWeather == {NoWeather, [ok |-> TRUE, main |-> "Clear", temp |-> 15]}

\* get_weather_data(latitude, longitude) at time t against cache c: the cache
\* after the call, the value returned (NoSnapshot for None), the outbound
\* requests made
get_weather_data(c, t, latitude, longitude, answer) ==
  LET cache_key == WeatherKey(latitude, longitude)
  IN  IF CacheHit(c, cache_key, t)
        THEN [cache |-> c, returned |-> c[cache_key].value, outbound |-> 0]
      ELSE IF StatusOk(answer)
        THEN [cache |-> CacheSet(c, cache_key, Snapshot(answer, t), WEATHER_TTL, t),
              returned |-> Snapshot(answer, t), outbound |-> 1]
      ELSE [cache |-> c, returned |-> NoSnapshot, outbound |-> 1]

\* get_weather_suggestions, the POST branch: a provider failure is answered
\* with status 500, a snapshot is cached for a week
get_weather_suggestions(c, t, latitude, longitude, answer) ==
  LET cache_key == WeatherKey(latitude, longitude)
  IN  IF CacheHit(c, cache_key, t)
        THEN [cache |-> c, returned |-> c[cache_key].value, outbound |-> 0]
      ELSE IF StatusOk(answer)
        THEN [cache |-> CacheSet(c, cache_key, Snapshot(answer, t),
                                 LEGACY_WEATHER_TTL, t),
              returned |-> Snapshot(answer, t), outbound |-> 1]
      ELSE [cache |-> c, returned |-> NoSnapshot, outbound |-> 1]

NoWeatherCall ==
  [endpoint |-> "none", latitude |-> Missing, longitude |-> Missing, at |-> 0,
   before |-> <<>>, returned |-> NoSnapshot, outbound |-> 0]

InitWeather ==
  /\ wx = [now |-> 0, cache |-> <<>>, left |-> MaxRequests + 1, ticks |-> MaxTicks,
           last |-> NoWeatherCall]
  /\ propIn = Unused /\ propOut = Unused /\ placeIn = Unused /\ placeOut = Unused
  /\ scope = Unused /\ config = Unused /\ now = Unused /\ cache = Unused
  /\ pc = Unused /\ req = Unused /\ locals = Unused /\ resp = Unused
  /\ trace = Unused /\ prev = Unused /\ left = Unused /\ ticks = Unused
  /\ fan = Unused /\ travel = Unused /\ details = Unused /\ userPrefs = Unused
  /\ hist = Unused

AfterWeatherCall(endpoint, latitude, longitude, r) ==
  [wx EXCEPT !.cache = r.cache,
             !.left = @ - 1,
             !.last = [endpoint |-> endpoint, latitude |-> latitude,
                       longitude |-> longitude, at |-> wx.now, before |-> wx.cache,
                       returned |-> r.returned, outbound |-> r.outbound]]

\* the activity-suggestion endpoint reaches its get_weather_data call
WeatherData ==
  /\ wx.left > 0
  /\ \E latitude \in NearbyLatitudes, answer \in ProviderWeather :
       wx' = AfterWeatherCall("get_weather_data", latitude, Paris.lng,
               get_weather_data(wx.cache, wx.now, latitude, Paris.lng, answer))
  /\ UNCHANGED <<propIn, propOut, placeIn, placeOut, scope, config, now, cache, pc, req, locals, resp, trace, prev, left, ticks, fan, travel, details, userPrefs, hist>>

\* a request to the legacy endpoint
WeatherSuggestions ==
  /\ wx.left > 0
  /\ \E latitude \in NearbyLatitudes, answer \in ProviderWeather :
       wx' = AfterWeatherCall("get_weather_suggestions", latitude, Paris.lng,
               get_weather_suggestions(wx.cache, wx.now, latitude, Paris.lng,
                                       answer))
  /\ UNCHANGED <<propIn, propOut, placeIn, placeOut, scope, config, now, cache, pc, req, locals, resp, trace, prev, left, ticks, fan, travel, details, userPrefs, hist>>

WeatherClock ==
  /\ wx.ticks > 0
  /\ wx.left > 0
  /\ wx' = [wx EXCEPT !.now = @ + HALF_DAY, !.ticks = @ - 1]
  /\ UNCHANGED <<propIn, propOut, placeIn, placeOut, scope, config, now, cache, pc, req, locals, resp, trace, prev, left, ticks, fan, travel, details, userPrefs, hist>>

NextWeather == WeatherData \/ WeatherSuggestions \/ WeatherClock

SpecWeather == InitWeather /\ [][NextWeather]_vars

\* the key was built from coordinates that round to the given ones' 4
\* decimals
RoundsTheSame(key, latitude, longitude) ==
  /\ Round4(Num(key.lat)) = Round4(latitude)
  /\ Round4(Num(key.lng)) = Round4(longitude)

\* C31: two get_weather_data calls whose coordinates round to the same
\* 4-decimal value use the same cache entry: once a snapshot was fetched for
\* such coordinates, a call within the TTL returns the cached snapshot and
\* makes no outbound weather call.
C31_RoundedCoordinatesShareWeatherEntry ==
  wx.last.endpoint = "get_weather_data" =>
    \A key \in DOMAIN wx.last.before :
      (/\ RoundsTheSame(key, wx.last.latitude, wx.last.longitude)
       /\ wx.last.at - wx.last.before[key].stored < WEATHER_TTL) =>
        /\ wx.last.outbound = 0
        /\ wx.last.returned.ok

\* C32: every snapshot get_weather_data returns was fetched from the weather
\* provider at most 86400 s earlier, whatever requests the two endpoints
\* served before.
C32_WeatherAtMostADayOld ==
  (wx.last.endpoint = "get_weather_data" /\ wx.last.returned.ok) =>
    wx.last.at - wx.last.returned.fetched <= WEATHER_TTL

\* C34: the location of every success response of get_activity_suggestion is
\* the pair of coordinates of that same request, also when the response is
\* served from the result cache for a request whose coordinates agree with
\* the stored ones only after rounding to 4 decimals.
C34_LocationEchoesRequest ==
  (pc = "done" /\ resp.status = 200) =>
    /\ resp.result.location.latitude = req.latitude
    /\ resp.result.location.longitude = req.longitude

(***************************************************************************)
(* The like/dislike history: update_user_preference and                    *)
(* delete_user_preference, one request at a time.  The cache holds, per    *)
(* user, the list under 'user_history_{user_id}' and, per user and place,  *)
(* the entry under 'user_pref_{user_id}_{place_id}'.                       *)
(***************************************************************************)
\* user_history[-100:]
HISTORY_CAP == 100

MaxOps == 3

UserIds == {"anonymous", "bob"}

\* the place ids of the model: "p1", "p2", ...
PlaceId(n) == "p" \o ToString(n)

\* preference_data; stamp stands for datetime.now().isoformat()
PreferenceData(user_id, place_id, preference, stamp) ==
  [place_id |-> place_id, preference |-> preference, user_id |-> user_id,
   timestamp |-> stamp]

\* bugs the filter could have: nothing removed
Untouched(user_history, place_id) == user_history

\* [p for p in user_history if p.get('place_id') != place_id]
WithoutPlace(user_history, place_id) ==
  SelectSeq(user_history, LAMBDA p : p.place_id # place_id)

\* a bug the trimming could have: the first n kept
KeepFirst(user_history, n) == SubSeq(user_history, 1, Min(n, Len(user_history)))

\* user_history[-n:]
KeepLast(user_history, n) ==
  SubSeq(user_history, Max(Len(user_history) - n, 0) + 1, Len(user_history))

\* a bug the update could have: the earlier entry of the place left in
AppendOnly(user_history, preference_data) ==
  KeepLast(Append(user_history, preference_data), HISTORY_CAP)

\* update_user_preference, lines 1111-1120: the history after the update
UpdatedHistory(user_history, preference_data) ==
  KeepLast(Append(WithoutPlace(user_history, preference_data.place_id),
                  preference_data),
           HISTORY_CAP)

\* not all([place_id, preference]) / preference not in ['like', 'dislike']
UpdateStatus(place_id, preference) ==
  IF place_id = "" \/ preference = "" THEN 400
  ELSE IF preference \notin {"like", "dislike"} THEN 400
  ELSE 200

NoHistoryCall ==
  [op |-> "none", user_id |-> "", place_id |-> "", preference |-> "", status |-> 0,
   before |-> [u \in UserIds |-> <<>>]]

\* filling: the number of places "anonymous" likes one after the other before
\* anything else is asked
InitHistory ==
  /\ hist \in [history : {[u \in UserIds |-> <<>>]}, single : {{}},
               filling : {0, HISTORY_CAP}, left : {MaxOps}, stamp : {0},
               last : {NoHistoryCall}]
  /\ propIn = Unused /\ propOut = Unused /\ placeIn = Unused /\ placeOut = Unused
  /\ scope = Unused /\ config = Unused /\ now = Unused /\ cache = Unused
  /\ pc = Unused /\ req = Unused /\ locals = Unused /\ resp = Unused
  /\ trace = Unused /\ prev = Unused /\ left = Unused /\ ticks = Unused
  /\ fan = Unused /\ travel = Unused /\ details = Unused /\ userPrefs = Unused
  /\ wx = Unused

Filling == Len(hist.history["anonymous"]) < hist.filling /\ hist.left = MaxOps

\* what the clients send: while filling, the next like of "anonymous";
\* then likes, dislikes and malformed payloads about a few places, one of
\* them new
UpdatePayloads ==
  IF Filling
    THEN {[user_id |-> "anonymous",
           place_id |-> PlaceId(Len(hist.history["anonymous"]) + 1),
           preference |-> "like"]}
  ELSE [user_id : UserIds,
        place_id : {"", PlaceId(1), PlaceId(2), PlaceId(HISTORY_CAP + 1)},
        preference : {"like", "dislike", "love"}]

\* one POST of update_user_preference
UpdateUserPreference ==
  /\ hist.left > 0
  /\ \E data \in UpdatePayloads :
       LET status == UpdateStatus(data.place_id, data.preference)
           preference_data == PreferenceData(data.user_id, data.place_id,
                                             data.preference, hist.stamp + 1)
           call == [op |-> "update", user_id |-> data.user_id,
                    place_id |-> data.place_id, preference |-> data.preference,
                    status |-> status, before |-> hist.history]
       IN  IF status # 200
             THEN hist' = [hist EXCEPT !.left = @ - 1, !.last = call]
           ELSE hist' =
                  [hist EXCEPT
                     !.single = {p \in @ : ~(p.user_id = data.user_id
                                             /\ p.place_id = data.place_id)}
                                \cup {preference_data},
                     !.history[data.user_id] = UpdatedHistory(@, preference_data),
                     !.stamp = @ + 1,
                     !.left = IF Filling THEN @ ELSE @ - 1,
                     !.last = call]
  /\ UNCHANGED <<propIn, propOut, placeIn, placeOut, scope, config, now, cache, pc, req, locals, resp, trace, prev, left, ticks, fan, travel, details, userPrefs, wx>>

\* one DELETE of delete_user_preference
DeleteUserPreference ==
  /\ hist.left > 0
  /\ ~Filling
  /\ \E user_id \in UserIds, place_id \in {PlaceId(1), PlaceId(HISTORY_CAP + 1)} :
       hist' = [hist EXCEPT
                  !.single = {p \in @ : ~(p.user_id = user_id
                                          /\ p.place_id = place_id)},
                  !.history[user_id] = WithoutPlace(@, place_id),
                  !.left = @ - 1,
                  !.last = [op |-> "delete", user_id |-> user_id,
                            place_id |-> place_id, preference |-> "",
                            status |-> 200, before |-> hist.history]]
  /\ UNCHANGED <<propIn, propOut, placeIn, placeOut, scope, config, now, cache, pc, req, locals, resp, trace, prev, left, ticks, fan, travel, details, userPrefs, wx>>

NextHistory == UpdateUserPreference \/ DeleteUserPreference

SpecHistory == InitHistory /\ [][NextHistory]_vars

(***************************************************************************)
(* Claims about the history, under SpecHistory.                            *)
(***************************************************************************)
\* the last request was an update that was accepted
Updated == hist.last.op = "update" /\ hist.last.status = 200

\* the entries the user had for other places before the last request
OtherEntriesBefore ==
  SelectSeq(hist.last.before[hist.last.user_id],
            LAMBDA p : p.place_id # hist.last.place_id)

\* C35: a user's history never holds more than 100 entries; when an update
\* would make it exceed 100, the oldest entries are discarded and the newly
\* submitted preference is kept.
C35_HistoryCappedOldestDropped ==
  /\ \A u \in UserIds : Len(hist.history[u]) <= HISTORY_CAP
  /\ (Updated /\ Len(OtherEntriesBefore) >= HISTORY_CAP) =>
       LET h == hist.history[hist.last.user_id]
           old == OtherEntriesBefore
       IN  /\ Len(h) = HISTORY_CAP
           /\ h[HISTORY_CAP].place_id = hist.last.place_id
           /\ h[HISTORY_CAP].preference = hist.last.preference
           /\ \A i \in 1..(HISTORY_CAP - 1) :
                h[i] = old[Len(old) - (HISTORY_CAP - 1) + i]

\* C35's case has happened: a user with 100 entries for other places sent a
\* new preference; the oldest entry is gone and the new one is there
C35_Witness ==
  /\ Updated
  /\ Len(OtherEntriesBefore) = HISTORY_CAP
  /\ Len(hist.history[hist.last.user_id]) = HISTORY_CAP
  /\ ~InSeq(OtherEntriesBefore[1], hist.history[hist.last.user_id])
  /\ hist.history[hist.last.user_id][HISTORY_CAP].place_id = hist.last.place_id

\* the positions of a place in a history
PositionsOf(user_history, place_id) ==
  {i \in 1..Len(user_history) : user_history[i].place_id = place_id}

\* C36: after any sequence of sequential update and delete requests a user's
\* history has at most one entry per place_id, and that entry carries the
\* preference value most recently submitted for the place: it is the entry
\* stored under the place's own key, and after an update the submitted one.
C36_OneEntryPerPlaceMostRecent ==
  /\ \A u \in UserIds :
       \A i \in 1..Len(hist.history[u]) :
         /\ PositionsOf(hist.history[u], hist.history[u][i].place_id) = {i}
         /\ hist.history[u][i] \in hist.single
         /\ hist.history[u][i].user_id = u
  /\ Updated =>
       \E i \in 1..Len(hist.history[hist.last.user_id]) :
         /\ hist.history[hist.last.user_id][i].place_id = hist.last.place_id
         /\ hist.history[hist.last.user_id][i].preference = hist.last.preference

\* C36's case has happened: a user who had liked a place has disliked it, and
\* the history has the one entry of the dislike
C36_Witness ==
  /\ Updated
  /\ hist.last.preference = "dislike"
  /\ \E i \in PositionsOf(hist.last.before[hist.last.user_id], hist.last.place_id) :
       hist.last.before[hist.last.user_id][i].preference = "like"
  /\ \E i \in 1..Len(hist.history[hist.last.user_id]) :
       /\ PositionsOf(hist.history[hist.last.user_id], hist.last.place_id) = {i}
       /\ hist.history[hist.last.user_id][i].preference = "dislike"

\* C37: after delete_user_preference(user, place) the user's history has no
\* entry for the place, every other entry of it is unchanged and in the same
\* order, and the histories of the other users are unchanged.
C37_DeleteRemovesOnlyThatPlace ==
  hist.last.op = "delete" =>
    LET before == hist.last.before[hist.last.user_id]
        h == hist.history[hist.last.user_id]
        at == PositionsOf(before, hist.last.place_id)
    IN  /\ PositionsOf(h, hist.last.place_id) = {}
        /\ Len(h) = Len(before) - Cardinality(at)
        /\ \A i \in 1..Len(h) :
             h[i] = before[i + Cardinality({k \in at : k <= i})]
        /\ \A u \in UserIds \ {hist.last.user_id} :
             hist.history[u] = hist.last.before[u]

\* C37's case has happened: an entry in the middle of a history was deleted
\* while another user had a history too
C37_Witness ==
  /\ hist.last.op = "delete"
  /\ \E k \in PositionsOf(hist.last.before[hist.last.user_id], hist.last.place_id) :
       1 < k /\ k < Len(hist.last.before[hist.last.user_id])
  /\ Len(hist.history[hist.last.user_id])
       = Len(hist.last.before[hist.last.user_id]) - 1

(***************************************************************************)
(* Two update_user_preference requests handled at the same time, each in   *)
(* its own thread or worker process, step by step: the write of the        *)
(* place's own entry, the read of the history, the write of the history.   *)
(***************************************************************************)
Requesters == {1, 2}

\* preference_data is not built yet
NoPreferenceData == PreferenceData("", "", "", 0)

\* the first request is anonymous's, about place p1; the second is about
\* place p2, by anonymous or by bob
RacePayloads ==
  {[i \in Requesters |->
      [user_id |-> IF i = 1 THEN "anonymous" ELSE u,
       place_id |-> PlaceId(i),
       preference |-> IF i = 1 THEN a ELSE b]] :
     u \in UserIds, a \in {"like", "dislike"}, b \in {"like", "dislike"}}

\* anonymous has no history yet, or has liked place p3 before
EarlierHistories ==
  {<<>>, <<PreferenceData("anonymous", PlaceId(3), "like", 0)>>}

InitHistoryRace ==
  /\ hist \in {[history |-> [u \in UserIds |->
                               IF u = "anonymous" THEN earlier ELSE <<>>],
                single |-> {earlier[i] : i \in 1..Len(earlier)},
                stamp |-> 0,
                payload |-> payload,
                pc |-> [i \in Requesters |-> "store"],
                preference_data |-> [i \in Requesters |-> NoPreferenceData],
                user_history |-> [i \in Requesters |-> <<>>]] :
                 payload \in RacePayloads, earlier \in EarlierHistories}
  /\ propIn = Unused /\ propOut = Unused /\ placeIn = Unused /\ placeOut = Unused
  /\ scope = Unused /\ config = Unused /\ now = Unused /\ cache = Unused
  /\ pc = Unused /\ req = Unused /\ locals = Unused /\ resp = Unused
  /\ trace = Unused /\ prev = Unused /\ left = Unused /\ ticks = Unused
  /\ fan = Unused /\ travel = Unused /\ details = Unused /\ userPrefs = Unused
  /\ wx = Unused

\* lines 1095-1105: preference_data is built and stored under the place's key
StorePreference ==
  /\ \E i \in Requesters :
       /\ hist.pc[i] = "store"
       /\ LET data == hist.payload[i]
              preference_data == PreferenceData(data.user_id, data.place_id,
                                                data.preference, hist.stamp + 1)
          IN  hist' = [hist EXCEPT
                         !.single = {p \in @ : ~(p.user_id = data.user_id
                                                 /\ p.place_id = data.place_id)}
                                    \cup {preference_data},
                         !.stamp = @ + 1,
                         !.preference_data[i] = preference_data,
                         !.pc[i] = "read"]
  /\ UNCHANGED <<propIn, propOut, placeIn, placeOut, scope, config, now, cache, pc, req, locals, resp, trace, prev, left, ticks, fan, travel, details, userPrefs, wx>>

\* line 1109: user_history = cache.get(history_key, [])
ReadHistory ==
  /\ \E i \in Requesters :
       /\ hist.pc[i] = "read"
       /\ hist' = [hist EXCEPT
                     !.user_history[i] = hist.history[hist.payload[i].user_id],
                     !.pc[i] = "write"]
  /\ UNCHANGED <<propIn, propOut, placeIn, placeOut, scope, config, now, cache, pc, req, locals, resp, trace, prev, left, ticks, fan, travel, details, userPrefs, wx>>

\* lines 1112-1120: the list read is filtered, extended, trimmed and written
\* back
WriteHistory ==
  /\ \E i \in Requesters :
       /\ hist.pc[i] = "write"
       /\ hist' = [hist EXCEPT
                     !.history[hist.payload[i].user_id] =
                        UpdatedHistory(hist.user_history[i], hist.preference_data[i]),
                     !.pc[i] = "done"]
  /\ UNCHANGED <<propIn, propOut, placeIn, placeOut, scope, config, now, cache, pc, req, locals, resp, trace, prev, left, ticks, fan, travel, details, userPrefs, wx>>

NextHistoryRace == StorePreference \/ ReadHistory \/ WriteHistory

SpecHistoryRace == InitHistoryRace /\ [][NextHistoryRace]_vars

\* both requests have been answered
BothDone == \A i \in Requesters : hist.pc[i] = "done"

\* C38: when two update_user_preference requests of the same user for two
\* different places run concurrently, both preferences are in the user's
\* history once both requests have completed, for every interleaving of
\* their cache reads and writes.
C38_NoLostUpdate ==
  (/\ BothDone
   /\ hist.payload[1].user_id = hist.payload[2].user_id
   /\ hist.payload[1].place_id # hist.payload[2].place_id) =>
    \A i \in Requesters :
      InSeq(hist.preference_data[i], hist.history[hist.payload[i].user_id])

\* what does hold: the updates of two different users are both kept
UpdatesOfTwoUsersKept ==
  (BothDone /\ hist.payload[1].user_id # hist.payload[2].user_id) =>
    \A i \in Requesters :
      InSeq(hist.preference_data[i], hist.history[hist.payload[i].user_id])

====
